---- MODULE Spec2Model ----
(***************************************************************************)
(* State-machine model of pyTesting/mailhog_scanner.py: the port probe,    *)
(* the SMTP and HTTP-API classifiers, the default-port shortcut, the       *)
(* thread-pool sweep of the port range, the two classification passes and  *)
(* the correlation of the candidates into instances.                       *)
(***************************************************************************)
EXTENDS Integers, Sequences, FiniteSets, TLC

\* ------------------------------------------------------------ constants

DEFAULT_SMTP_PORT == 1025

DEFAULT_HTTP_PORT == 8025

\* ThreadPoolExecutor(max_workers=50)
max_workers == 50

\* port_range[0] of the default range (1024, 10000)
RangeLo == 1024

\* Largest number of ports in the swept range under Spec and SpecApi.
MaxRange == 3

\* Number of ports in the swept range under SpecPool (more than max_workers).
PoolRange == 52

\* Largest number of messages a listing holds under SpecVerify.
MaxCount == 2

\* Number of invocations of scan_mailhog_ports in a row under SpecRerun.
MaxRuns == 2

\* Mutant of api_paths: the v2 listing tried first.
api_pathsV2First == <<"/api/v2/messages", "/api/v1/messages", "/api">>

\* The api_paths list of is_mailhog_api, in the order of the source.
api_paths == <<"/api/v1/messages", "/api/v2/messages", "/api">>

\* The path under which the bare url (the web interface) is reported.
RootPath == "/"

AllPaths == {"/api/v1/messages", "/api/v2/messages", "/api", RootPath}

\* ---------------------------------------------------------- environment
\* What the network answers. A service is what one port of the host does:
\* the outcome of a TCP connect, the greeting it sends after the connect,
\* and its answer to an HTTP GET of each path.

\* requests.get raised (connection refused, timeout, not HTTP at all).
ConnError == [raised |-> TRUE, status |-> 0, body |-> "none"]

Resp(status, body) == [raised |-> FALSE, status |-> status, body |-> body]

\* Body shapes: "text" (no JSON, no product name), "html_mailhog" (no JSON,
\* contains "MailHog"), "json_items" (a JSON object with an items field),
\* "json_object" (a JSON object without it), "json_list" (a JSON list),
\* "json_scalar" (a JSON number: has no membership test).
Bodies == {"text", "html_mailhog", "json_items", "json_object", "json_list", "json_scalar"}

\* What an API path may answer: an error, a 404 (even with the v2 body), or
\* a 200 with each body shape.
PathResponses ==
    {ConnError, Resp(404, "text"), Resp(404, "json_items")}
        \cup {Resp(200, b) : b \in Bodies \ {"html_mailhog"}}

\* What the bare url may answer.
RootResponses ==
    {ConnError, Resp(200, "text"), Resp(200, "html_mailhog"), Resp(404, "html_mailhog")}

NoHttp == [p \in AllPaths |-> ConnError]

Http(v1, v2, api, root) ==
    [p \in AllPaths |->
        CASE p = "/api/v1/messages" -> v1
          [] p = "/api/v2/messages" -> v2
          [] p = "/api" -> api
          [] OTHER -> root]

\* The greeting: ok is FALSE when connect or recv raises (refused, timeout);
\* data is what the peer sends first, a sequence of bytes written as one
\* character each (empty when the peer closes without sending).
NoGreeting == [ok |-> FALSE, data |-> <<>>]

Greeting(bytes) == [ok |-> TRUE, data |-> bytes]

\* A byte that is not valid UTF-8 (0xFF).
InvalidByte == "0xFF"

\* "220 ESMTP MailHog"
BannerMailHog == <<"2", "2", "0", " ", "E", "S", "M", "T", "P", " ", "M", "a", "i", "l", "H", "o", "g">>

\* "220 ready"
Banner220 == <<"2", "2", "0", " ", "r", "e", "a", "d", "y">>

\* "hello"
BannerHello == <<"h", "e", "l", "l", "o">>

\* "ESMTP": the marker SMTP inside a longer word
BannerEsmtp == <<"E", "S", "M", "T", "P">>

\* "MailHog"
BannerProduct == <<"M", "a", "i", "l", "H", "o", "g">>

\* "mailhog smtp": the markers in lower case
BannerLower == <<"m", "a", "i", "l", "h", "o", "g", " ", "s", "m", "t", "p">>

\* "2", an invalid byte, "20": the marker 220 only once the byte is dropped
BannerBroken == <<"2", InvalidByte, "2", "0">>

Closed == [tcp |-> "refused", greeting |-> NoGreeting, http |-> NoHttp]

Filtered == [tcp |-> "timeout", greeting |-> NoGreeting, http |-> NoHttp]

\* The probe itself fails: socket() or connect_ex raises (no descriptor left,
\* the host name does not resolve, the port is not a port number).
Erroring == [tcp |-> "error", greeting |-> NoGreeting, http |-> NoHttp]

SmtpService == [tcp |-> "open", greeting |-> Greeting(BannerMailHog), http |-> NoHttp]

OtherService == [tcp |-> "open", greeting |-> Greeting(BannerHello), http |-> NoHttp]

\* MailHog's HTTP port: both message listings and the web interface.
MailHogHttp ==
    [tcp |-> "open", greeting |-> NoGreeting,
     http |-> Http(Resp(200, "json_list"), Resp(200, "json_items"),
                   Resp(404, "text"), Resp(200, "html_mailhog"))]

WebUiOnly ==
    [tcp |-> "open", greeting |-> NoGreeting,
     http |-> Http(Resp(404, "text"), Resp(404, "text"),
                   Resp(404, "text"), Resp(200, "html_mailhog"))]

\* One port answering both as SMTP (the greeting) and as API.
BothService ==
    [tcp |-> "open", greeting |-> Greeting(Banner220),
     http |-> Http(Resp(200, "json_list"), Resp(200, "json_items"),
                   Resp(200, "text"), Resp(200, "text"))]

Services == {Closed, SmtpService, OtherService, MailHogHttp, WebUiOnly, BothService}

VARIABLES
    env,            \* port -> service: the host being scanned
    port_range,     \* <<lo, hi>>
    pc,             \* position of the main thread in scan_mailhog_ports
    smtp_port_open, \* check_default_mailhog_instance: local
    http_port_open, \* check_default_mailhog_instance: local
    instance,       \* check_default_mailhog_instance: the dict being filled
    port_futures,   \* the ports submitted to the executor, in submission order
    queue,          \* executor: work items not yet taken by a worker
    running,        \* executor: ports whose check_tcp_port is in flight
    future_result,  \* finished port -> result of its future
    consumed,       \* ports whose future the main loop has taken the result of
    open_ports,
    smtp_i,         \* index of the SMTP pass in open_ports
    smtp_ports,
    api_i,          \* index of the API pass in open_ports
    api_ports,
    mailhog_instances,
    returned,       \* the value scan_mailhog_ports returned (once pc = "done")
    tcp_calls,      \* every port check_tcp_port was called with, in call order
    smtp_calls,     \* every port is_smtp_port was called with, in call order
    api_calls,      \* every call of is_mailhog_api, in call order: where it was
                    \* made, the port, the paths it requested, what it returned
    args,           \* main: the parsed command line
    runs,           \* number of finished invocations of scan_mailhog_ports
    previous,       \* what the invocation before this one returned
    main_i,         \* main: number of instances of the result already tested
    vpc,            \* position in verify_mailhog_functionality
    vinstance,      \* verify_mailhog_functionality: the instance argument
    venv,           \* what the instance's peers answer during the verification
    verification,   \* verify_mailhog_functionality: the dict being filled
    messages_url,   \* verify_mailhog_functionality: local
    net_ops,        \* the network operations of the verification, in order
    argv,           \* the values given after --port-range on the command line
    python,         \* the interpreter the scanner is run with
    exit_status,    \* the exit status of the scanner process (once pc = "exited")
    api_tests,      \* main: what test_mailhog_api_endpoints returned last
    dpm,            \* docker_port_manager.py: the state of its main
    aft             \* deploy_test.py: the state of run_auth_flow_test

vars == <<env, port_range, pc, smtp_port_open, http_port_open, instance,
          port_futures, queue, running, future_result, consumed, open_ports,
          smtp_i, smtp_ports, api_i, api_ports, mailhog_instances, returned,
          tcp_calls, smtp_calls, api_calls, args, runs, previous, main_i, vpc,
          vinstance, venv, verification, messages_url, net_ops, argv, python,
          exit_status, api_tests, dpm, aft>>

\* The variables of the scanner as a command, and of the other two programs.
outerVars == <<argv, python, exit_status, api_tests, dpm, aft>>

\* The variables of main and of a caller that scans again.
callerVars == <<args, runs, previous, main_i>>

\* The variables of verify_mailhog_functionality.
verifyVars == <<vpc, vinstance, venv, verification, messages_url, net_ops>>

lo == port_range[1]

hi == port_range[2]

\* range(port_range[0], port_range[1] + 1)
SweepPorts == lo .. hi

Universe == SweepPorts \cup {DEFAULT_SMTP_PORT, DEFAULT_HTTP_PORT}

\* ------------------------------------------------------------ primitives

\* How a call ends: it returns a value or it raises.
Return(value) == [raised |-> FALSE, value |-> value]

Raise == [raised |-> TRUE, value |-> FALSE]

\* sock.connect_ex((host, port)): 0 when the connect succeeded, the errno
\* when it did not (ECONNREFUSED, EAGAIN after the timeout); it raises on
\* what is not a connect failure.
connect_ex(port) ==
    CASE env[port].tcp = "open" -> Return(0)
      [] env[port].tcp = "refused" -> Return(111)
      [] env[port].tcp = "timeout" -> Return(11)
      [] OTHER -> Raise

\* Mutant of ConnectSucceeded: `return result`, the errno taken as the answer.
ConnectSucceededTruthy(result) == result # 0

\* `result == 0`
ConnectSucceeded(result) == result = 0

\* check_tcp_port: `except: return False`
check_tcp_port_except == Return(FALSE)

\* check_tcp_port as a call: its try block and its except clause.
check_tcp_port_call(port) ==
    LET result == connect_ex(port)
    IN  IF result.raised
        THEN check_tcp_port_except
        ELSE Return(ConnectSucceeded(result.value))

\* check_tcp_port: the value it returns.
check_tcp_port(port) == check_tcp_port_call(port).value

\* sock.recv(1024): at most bufsize bytes of what the peer sent first.
bufsize == 1024

recv(sent) == SubSeq(sent, 1, IF Len(sent) < bufsize THEN Len(sent) ELSE bufsize)

\* data.decode('utf-8', errors='ignore'): the invalid bytes are dropped.
decode(data) == SelectSeq(data, LAMBDA b : b # InvalidByte)

\* Mutant of Contains: startswith, the marker only at the beginning.
ContainsAtStart(text, marker) ==
    /\ Len(marker) <= Len(text)
    /\ SubSeq(text, 1, Len(marker)) = marker

\* `marker in text`
Contains(text, marker) ==
    \E k \in 0 .. Len(text) - Len(marker) : SubSeq(text, k + 1, k + Len(marker)) = marker

\* The three markers of is_smtp_port.
Markers == {<<"2", "2", "0">>, <<"S", "M", "T", "P">>, <<"M", "a", "i", "l", "H", "o", "g">>}

\* Mutant of is_smtp_port_except: no except clause, the error escapes.
is_smtp_port_reraise == Raise

\* is_smtp_port: `except: return False`
is_smtp_port_except == Return(FALSE)

\* is_smtp_port as a call: connect and recv raise when the peer refuses, does
\* not answer within the timeout or resets.
is_smtp_port_call(port) ==
    LET g == env[port].greeting
    IN  IF ~g.ok
        THEN is_smtp_port_except
        ELSE LET response == decode(recv(g.data))
             IN  Return(\E marker \in Markers : Contains(response, marker))

\* is_smtp_port: the value it returns.
is_smtp_port(port) == is_smtp_port_call(port).value

IsJson(response) == response.body \in {"json_items", "json_object", "json_list", "json_scalar"}

\* 'items' in data: raises on a scalar, else whether the field is there.
ItemsRaises(response) == response.body = "json_scalar"

\* Mutant of HasItems: the test names a field no body has ('item').
HasItemsTypo(response) == FALSE

HasItems(response) == response.body = "json_items"

TextHasMailHog(response) == response.body = "html_mailhog"

NoMatch == [is_api |-> FALSE, api_version |-> "None", api_path |-> "None", requests |-> <<>>]

Match(version, path) == [is_api |-> TRUE, api_version |-> version, api_path |-> path, requests |-> <<path>>]

\* Mutant of WebInterfaceCheck: the web interface is requested and not
\* reported as a match.
WebInterfaceNever(http) == [NoMatch EXCEPT !.requests = <<RootPath>>]

\* The web-interface check after the loop over the paths.
WebInterfaceCheck(http) ==
    LET response == http[RootPath]
    IN  IF ~response.raised /\ TextHasMailHog(response)
        THEN Match("web_interface", RootPath)
        ELSE [NoMatch EXCEPT !.requests = <<RootPath>>]

\* What one path of the loop decides: TRUE when the loop returns there.
PathMatches(path, response) ==
    /\ ~response.raised
    /\ response.status = 200
    /\ CASE path = "/api/v2/messages" ->
                IsJson(response) /\ ~ItemsRaises(response) /\ HasItems(response)
         [] path = "/api/v1/messages" -> IsJson(response)
         [] path = "/api" -> TRUE
         [] OTHER -> FALSE

VersionOf(path) ==
    CASE path = "/api/v2/messages" -> "v2"
      [] path = "/api/v1/messages" -> "v1"
      [] OTHER -> "unknown"

\* Whether the body of the loop raises at this path: the GET itself, or
\* response.json() on a body that is no JSON, or the membership test.
PathRaises(path, response) ==
    \/ response.raised
    \/ /\ response.status = 200
       /\ \/ path = "/api/v2/messages" /\ (~IsJson(response) \/ ItemsRaises(response))
          \/ path = "/api/v1/messages" /\ ~IsJson(response)

RECURSIVE TryPaths(_, _, _)

\* Mutant of PathExcept: no try around the body of the loop, the error
\* reaches the outer `except: return False, None, None`.
PathExceptOuter(paths, http, i) == NoMatch

\* The inner `except: continue`: on to the next path.
PathExcept(paths, http, i) == TryPaths(paths, http, i + 1)

\* The loop `for path in api_paths` from index i on, then the web check.
TryPaths(paths, http, i) ==
    IF i > Len(paths)
    THEN WebInterfaceCheck(http)
    ELSE IF PathMatches(paths[i], http[paths[i]])
         THEN Match(VersionOf(paths[i]), paths[i])
         ELSE LET rest == IF PathRaises(paths[i], http[paths[i]])
                          THEN PathExcept(paths, http, i)
                          ELSE TryPaths(paths, http, i + 1)
              IN  [rest EXCEPT !.requests = <<paths[i]>> \o @]

\* is_mailhog_api(url), url = http://host:port
is_mailhog_api(port) == TryPaths(api_paths, env[port].http, 1)

\* The trace of one call: phase is "default" or "sweep".
CallRecord(phase, port, r) ==
    [phase |-> phase, port |-> port, requests |-> r.requests,
     result |-> <<r.is_api, r.api_version, r.api_path>>]

\* The instance dict of the source, and the records appended to api_ports.
Url(port, path) == <<port, path>>

ApiInfo(port, r) ==
    [port |-> port, api_version |-> r.api_version, api_path |-> r.api_path, url |-> Url(port, "")]

\* Mutant of InstanceOf: the two ports written to each other's key.
InstanceOfSwapped(smtp_port, api_info) ==
    [smtp_port |-> api_info.port,
     api_port |-> smtp_port,
     api_version |-> api_info.api_version,
     api_url |-> Url(api_info.port, api_info.api_path),
     web_ui |-> api_info.url]

InstanceOf(smtp_port, api_info) ==
    [smtp_port |-> smtp_port,
     api_port |-> api_info.port,
     api_version |-> api_info.api_version,
     api_url |-> Url(api_info.port, api_info.api_path),
     web_ui |-> api_info.url]

\* ----------------------------------------------------------------- Init

\* No scan yet: nothing probed, nothing collected, nothing returned.
NotScanned ==
    /\ smtp_port_open = FALSE
    /\ http_port_open = FALSE
    /\ instance = <<>>
    /\ port_futures = <<>>
    /\ queue = <<>>
    /\ running = {}
    /\ future_result = <<>>
    /\ consumed = {}
    /\ open_ports = <<>>
    /\ smtp_i = 0
    /\ smtp_ports = <<>>
    /\ api_i = 0
    /\ api_ports = <<>>
    /\ mailhog_instances = <<>>
    /\ returned = <<>>
    /\ tcp_calls = <<>>
    /\ smtp_calls = <<>>
    /\ api_calls = <<>>

\* The entry of scan_mailhog_ports.
Start ==
    /\ pc = "check_default"
    /\ NotScanned

\* No command line: scan_mailhog_ports called as a function, for the first time.
FirstCall ==
    /\ args = [skip_default_check |-> FALSE]
    /\ runs = 0
    /\ previous = <<>>
    /\ main_i = 0

\* verify_mailhog_functionality not called.
VerifyIdle ==
    /\ vpc = "idle"
    /\ vinstance = <<>>
    /\ venv = <<>>
    /\ verification = <<>>
    /\ messages_url = <<>>
    /\ net_ops = <<>>

\* The scanner is not run as a command.
NotCli ==
    /\ argv = <<>>
    /\ python = "from_3_12"
    /\ exit_status = -1
    /\ api_tests = <<>>

\* docker_port_manager.py is not run.
DpmIdle == dpm = <<>>

\* run_auth_flow_test is not run.
AftIdle == aft = <<>>

OuterIdle == NotCli /\ DpmIdle /\ AftIdle

\* A scan of RangeLo .. RangeLo + n - 1 (empty when n = 0) of a host whose
\* ports each run one of Services.
Init ==
    /\ port_range \in {<<RangeLo, RangeLo + n - 1>> : n \in 0 .. MaxRange}
    /\ env \in [Universe -> Services]
    /\ Start
    /\ FirstCall
    /\ VerifyIdle
    /\ OuterIdle

\* A scan of the one port DEFAULT_HTTP_PORT, open, answering each path with
\* any of PathResponses (the bare url: RootResponses), with or without an SMTP greeting; the default SMTP port
\* is closed, filtered or MailHog's.
HttpServices ==
    {[tcp |-> "open", greeting |-> g, http |-> h] :
        g \in {NoGreeting, Greeting(BannerMailHog)},
        h \in {Http(v1, v2, api, root) :
                    v1 \in PathResponses, v2 \in PathResponses,
                    api \in PathResponses, root \in RootResponses}}

InitApi ==
    /\ port_range = <<DEFAULT_HTTP_PORT, DEFAULT_HTTP_PORT>>
    /\ env \in {(DEFAULT_SMTP_PORT :> s) @@ (DEFAULT_HTTP_PORT :> h) :
                    s \in {Closed, Filtered, SmtpService}, h \in HttpServices}
    /\ Start
    /\ FirstCall
    /\ VerifyIdle
    /\ OuterIdle

\* A scan of PoolRange ports, more than the executor has workers, of a host
\* with nothing listening.
InitPool ==
    /\ port_range = <<RangeLo, RangeLo + PoolRange - 1>>
    /\ env = [p \in Universe |-> Closed]
    /\ Start
    /\ FirstCall
    /\ VerifyIdle
    /\ OuterIdle

\* ------------------------------------------- check_default_mailhog_instance

\* The two probes; `return None` when neither port is open, which sends
\* scan_mailhog_ports past `if default_instance` into the sweep.
\* A probe that raised would end the scan there (pc = "raised"): nothing
\* around the two calls catches.
CheckDefaultPorts ==
    /\ pc = "check_default"
    /\ LET smtp == check_tcp_port_call(DEFAULT_SMTP_PORT)
           http == check_tcp_port_call(DEFAULT_HTTP_PORT)
       IN  IF smtp.raised
           THEN /\ tcp_calls' = Append(tcp_calls, DEFAULT_SMTP_PORT)
                /\ pc' = "raised"
                /\ UNCHANGED <<smtp_port_open, http_port_open>>
           ELSE IF http.raised
           THEN /\ tcp_calls' = tcp_calls \o <<DEFAULT_SMTP_PORT, DEFAULT_HTTP_PORT>>
                /\ pc' = "raised"
                /\ smtp_port_open' = smtp.value
                /\ UNCHANGED http_port_open
           ELSE /\ smtp_port_open' = smtp.value
                /\ http_port_open' = http.value
                /\ tcp_calls' = tcp_calls \o <<DEFAULT_SMTP_PORT, DEFAULT_HTTP_PORT>>
                /\ pc' = IF ~smtp_port_open' /\ ~http_port_open' THEN "sweep" ELSE "classify_default"
    /\ UNCHANGED <<callerVars, verifyVars, outerVars>>
    /\ UNCHANGED <<env, port_range, instance, port_futures, queue, running,
                   future_result, consumed, open_ports, smtp_i, smtp_ports, api_i,
                   api_ports, mailhog_instances, returned, smtp_calls, api_calls>>

DefaultSmtpPart ==
    IF smtp_port_open /\ is_smtp_port(DEFAULT_SMTP_PORT)
    THEN "smtp_port" :> DEFAULT_SMTP_PORT
    ELSE <<>>

DefaultApiPart ==
    LET r == is_mailhog_api(DEFAULT_HTTP_PORT)
        info == ApiInfo(DEFAULT_HTTP_PORT, r)
    IN  IF http_port_open /\ r.is_api
        THEN ("api_port" :> DEFAULT_HTTP_PORT)
             @@ ("api_version" :> r.api_version)
             @@ ("api_url" :> Url(DEFAULT_HTTP_PORT, r.api_path))
             @@ ("web_ui" :> info.url)
        ELSE <<>>

\* instance = {} and the two `if ..._port_open` blocks.
ClassifyDefault ==
    /\ pc = "classify_default"
    /\ smtp_calls' = IF smtp_port_open THEN Append(smtp_calls, DEFAULT_SMTP_PORT) ELSE smtp_calls
    /\ IF smtp_port_open /\ is_smtp_port_call(DEFAULT_SMTP_PORT).raised
       THEN /\ pc' = "raised"
            /\ UNCHANGED <<instance, api_calls>>
       ELSE /\ instance' = DefaultSmtpPart @@ DefaultApiPart
            /\ api_calls' =
                  IF http_port_open
                  THEN Append(api_calls, CallRecord("default", DEFAULT_HTTP_PORT,
                                                    is_mailhog_api(DEFAULT_HTTP_PORT)))
                  ELSE api_calls
            /\ pc' = "default_return"
    /\ UNCHANGED <<callerVars, verifyVars, outerVars>>
    /\ UNCHANGED <<env, port_range, smtp_port_open, http_port_open, port_futures,
                   queue, running, future_result, consumed, open_ports, smtp_i,
                   smtp_ports, api_i, api_ports, mailhog_instances, returned,
                   tcp_calls>>

\* Mutant of DefaultComplete: the instance counts only when the range
\* contains the default ports.
DefaultCompleteInRange ==
    /\ "smtp_port" \in DOMAIN instance
    /\ "api_port" \in DOMAIN instance
    /\ DEFAULT_SMTP_PORT \in SweepPorts
    /\ DEFAULT_HTTP_PORT \in SweepPorts

\* Mutant of DefaultComplete: `or` for `and`, a partial instance is returned.
DefaultCompletePartial == "smtp_port" \in DOMAIN instance \/ "api_port" \in DOMAIN instance

\* Mutant of DefaultComplete: the complete instance is never returned.
DefaultCompleteNever == FALSE

\* `if "smtp_port" in instance and "api_port" in instance: return [instance]`
DefaultComplete == "smtp_port" \in DOMAIN instance /\ "api_port" \in DOMAIN instance

\* The end of check_default_mailhog_instance and, in scan_mailhog_ports,
\* `if default_instance: return default_instance`.
DefaultReturn ==
    /\ pc = "default_return"
    /\ IF DefaultComplete
       THEN /\ returned' = <<instance>>
            /\ pc' = "done"
       ELSE /\ returned' = returned
            /\ pc' = "sweep"
    /\ UNCHANGED <<callerVars, verifyVars, outerVars>>
    /\ UNCHANGED <<env, port_range, smtp_port_open, http_port_open, instance,
                   port_futures, queue, running, future_result, consumed,
                   open_ports, smtp_i, smtp_ports, api_i, api_ports,
                   mailhog_instances, tcp_calls, smtp_calls, api_calls>>

\* ------------------------------------------------- the sweep (first pass)
\* with ThreadPoolExecutor(max_workers=50) as executor: the dict comprehension
\* submits one check_tcp_port per port of the range, in ascending order; the
\* executor's workers take the work items first-in first-out, at most
\* max_workers at a time; the main thread then takes the futures' results in
\* the order of the dict, which is the order of submission.

\* The next port the comprehension submits.
NextToSubmit == lo + Len(port_futures)

\* Mutant of MoreToSubmit: range(lo, hi), the upper bound left out.
MoreToSubmitExclusive == NextToSubmit < hi

\* Whether the comprehension has a port left: range(lo, hi + 1).
MoreToSubmit == NextToSubmit <= hi

Submit ==
    /\ pc = "sweep"
    /\ MoreToSubmit
    /\ port_futures' = Append(port_futures, NextToSubmit)
    /\ queue' = Append(queue, NextToSubmit)
    /\ UNCHANGED <<callerVars, verifyVars, outerVars>>
    /\ UNCHANGED <<env, port_range, pc, smtp_port_open, http_port_open, instance,
                   running, future_result, consumed, open_ports, smtp_i,
                   smtp_ports, api_i, api_ports, mailhog_instances, returned,
                   tcp_calls, smtp_calls, api_calls>>

\* Mutant of WorkerFree: an executor that starts a thread per work item.
WorkerFreeAlways == TRUE

\* A worker thread exists for the item: the executor starts a thread per
\* submission until max_workers threads exist, and no more.
WorkerFree == Cardinality(running) < max_workers

\* A worker takes the oldest queued item and calls check_tcp_port.
WorkerStart ==
    /\ queue # <<>>
    /\ WorkerFree
    /\ running' = running \cup {Head(queue)}
    /\ queue' = Tail(queue)
    /\ tcp_calls' = Append(tcp_calls, Head(queue))
    /\ UNCHANGED <<callerVars, verifyVars, outerVars>>
    /\ UNCHANGED <<env, port_range, pc, smtp_port_open, http_port_open, instance,
                   port_futures, future_result, consumed, open_ports, smtp_i,
                   smtp_ports, api_i, api_ports, mailhog_instances, returned,
                   smtp_calls, api_calls>>

\* check_tcp_port(host, port) returns and the future gets its result.
Finish(port) ==
    /\ port \in running
    /\ running' = running \ {port}
    /\ future_result' = future_result @@ (port :> check_tcp_port(port))
    /\ UNCHANGED <<callerVars, verifyVars, outerVars>>
    /\ UNCHANGED <<env, port_range, pc, smtp_port_open, http_port_open, instance,
                   port_futures, queue, consumed, open_ports, smtp_i, smtp_ports,
                   api_i, api_ports, mailhog_instances, returned, tcp_calls,
                   smtp_calls, api_calls>>

WorkerFinish == \E port \in running : Finish(port)

\* Mutant of FutureToTake: `for future in as_completed(port_futures)`, any
\* finished future not yet taken.
FutureToTakeAsCompleted == {port \in DOMAIN future_result : port \notin consumed}

\* `for future in port_futures`: the future the loop is at.
FutureToTake == {port_futures[Cardinality(consumed) + 1]}

\* future.result() blocks until the future is done; an open port is appended.
\* A probe that raised would make future.result() raise, into the `except
\* Exception` of the loop, which logs and goes on to the next future.
TakeResult ==
    /\ pc = "sweep"
    /\ ~MoreToSubmit
    /\ Cardinality(consumed) < Len(port_futures)
    /\ \E port \in FutureToTake :
          /\ port \in DOMAIN future_result
          /\ consumed' = consumed \cup {port}
          /\ open_ports' = IF ~check_tcp_port_call(port).raised /\ future_result[port]
                           THEN Append(open_ports, port)
                           ELSE open_ports
    /\ UNCHANGED <<callerVars, verifyVars, outerVars>>
    /\ UNCHANGED <<env, port_range, pc, smtp_port_open, http_port_open, instance,
                   port_futures, queue, running, future_result, smtp_i,
                   smtp_ports, api_i, api_ports, mailhog_instances, returned,
                   tcp_calls, smtp_calls, api_calls>>

\* Mutant of ResultsLoopOver: a loop that can be left with futures not waited
\* for, out of a block that does not wait for them either.
ResultsLoopOverUnawaited == TRUE

\* `for future in port_futures` has been through every future.
ResultsLoopOver == Cardinality(consumed) = Len(port_futures)

\* The loop over the futures is over and the with block is left (every
\* future was waited for, so the executor's shutdown has nothing to wait for).
SweepEnd ==
    /\ pc = "sweep"
    /\ ~MoreToSubmit
    /\ ResultsLoopOver
    /\ pc' = "smtp_pass"
    /\ UNCHANGED <<callerVars, verifyVars, outerVars>>
    /\ UNCHANGED <<env, port_range, smtp_port_open, http_port_open, instance,
                   port_futures, queue, running, future_result, consumed,
                   open_ports, smtp_i, smtp_ports, api_i, api_ports,
                   mailhog_instances, returned, tcp_calls, smtp_calls, api_calls>>

\* --------------------------------------------------- second pass: SMTP

\* A classifier that raised would end the scan there: the loop has no try.
SmtpStep ==
    /\ pc = "smtp_pass"
    /\ smtp_i < Len(open_ports)
    /\ LET port == open_ports[smtp_i + 1]
       IN  /\ smtp_calls' = Append(smtp_calls, port)
           /\ IF is_smtp_port_call(port).raised
              THEN /\ pc' = "raised"
                   /\ UNCHANGED <<smtp_ports, smtp_i>>
              ELSE /\ smtp_ports' = IF is_smtp_port(port) THEN Append(smtp_ports, port) ELSE smtp_ports
                   /\ smtp_i' = smtp_i + 1
                   /\ pc' = pc
    /\ UNCHANGED <<callerVars, verifyVars, outerVars>>
    /\ UNCHANGED <<env, port_range, smtp_port_open, http_port_open, instance,
                   port_futures, queue, running, future_result, consumed,
                   open_ports, api_i, api_ports, mailhog_instances, returned,
                   tcp_calls, api_calls>>

SmtpEnd ==
    /\ pc = "smtp_pass"
    /\ smtp_i = Len(open_ports)
    /\ pc' = "api_pass"
    /\ UNCHANGED <<callerVars, verifyVars, outerVars>>
    /\ UNCHANGED <<env, port_range, smtp_port_open, http_port_open, instance,
                   port_futures, queue, running, future_result, consumed,
                   open_ports, smtp_i, smtp_ports, api_i, api_ports,
                   mailhog_instances, returned, tcp_calls, smtp_calls, api_calls>>

\* ---------------------------------------------------- third pass: API

\* Mutant of StopAfterApi: no `break`, the loop goes through every open port.
StopAfterApiNever == FALSE

\* Mutant of StopAfterApi: `break` without the `if smtp_ports`.
StopAfterApiAlways == TRUE

\* `if smtp_ports: break`, reached only right after an append to api_ports.
StopAfterApi == smtp_ports # <<>>

ApiStep ==
    /\ pc = "api_pass"
    /\ api_i < Len(open_ports)
    /\ LET port == open_ports[api_i + 1]
           r == is_mailhog_api(port)
       IN  /\ api_calls' = Append(api_calls, CallRecord("sweep", port, r))
           /\ api_ports' = IF r.is_api THEN Append(api_ports, ApiInfo(port, r)) ELSE api_ports
           /\ pc' = IF r.is_api /\ StopAfterApi THEN "correlate" ELSE pc
    /\ api_i' = api_i + 1
    /\ UNCHANGED <<callerVars, verifyVars, outerVars>>
    /\ UNCHANGED <<env, port_range, smtp_port_open, http_port_open, instance,
                   port_futures, queue, running, future_result, consumed,
                   open_ports, smtp_i, smtp_ports, mailhog_instances, returned,
                   tcp_calls, smtp_calls>>

ApiEnd ==
    /\ pc = "api_pass"
    /\ api_i = Len(open_ports)
    /\ pc' = "correlate"
    /\ UNCHANGED <<callerVars, verifyVars, outerVars>>
    /\ UNCHANGED <<env, port_range, smtp_port_open, http_port_open, instance,
                   port_futures, queue, running, future_result, consumed,
                   open_ports, smtp_i, smtp_ports, api_i, api_ports,
                   mailhog_instances, returned, tcp_calls, smtp_calls, api_calls>>

\* ------------------------------------------------------- correlation

\* Mutant of PairAll: a pair is skipped when both halves are the same port.
RECURSIVE PairAllDistinct(_, _, _, _)
PairAllDistinct(smtps, apis, i, j) ==
    IF i > Len(smtps) THEN <<>>
    ELSE IF j > Len(apis) THEN PairAllDistinct(smtps, apis, i + 1, 1)
    ELSE (IF smtps[i] = apis[j].port THEN <<>> ELSE <<InstanceOf(smtps[i], apis[j])>>)
         \o PairAllDistinct(smtps, apis, i, j + 1)

\* Mutant of PairAll: the two lists paired position by position (zip).
PairAllZip(smtps, apis, i, j) ==
    [k \in 1 .. (IF Len(smtps) < Len(apis) THEN Len(smtps) ELSE Len(apis)) |->
        InstanceOf(smtps[k], apis[k])]

\* for smtp_port in smtp_ports: for api_info in api_ports: append
RECURSIVE PairAll(_, _, _, _)
PairAll(smtps, apis, i, j) ==
    IF i > Len(smtps) THEN <<>>
    ELSE IF j > Len(apis) THEN PairAll(smtps, apis, i + 1, 1)
    ELSE <<InstanceOf(smtps[i], apis[j])>> \o PairAll(smtps, apis, i, j + 1)

Correlate ==
    /\ pc = "correlate"
    /\ mailhog_instances' = mailhog_instances \o PairAll(smtp_ports, api_ports, 1, 1)
    /\ returned' = mailhog_instances'
    /\ pc' = "done"
    /\ UNCHANGED <<callerVars, verifyVars, outerVars>>
    /\ UNCHANGED <<env, port_range, smtp_port_open, http_port_open, instance,
                   port_futures, queue, running, future_result, consumed,
                   open_ports, smtp_i, smtp_ports, api_i, api_ports, tcp_calls,
                   smtp_calls, api_calls>>

\* ------------------------------------------------------ a second scan

\* Mutant of LocalsAtEntry: the four lists as module-level objects, kept
\* from one invocation to the next.
LocalsKept ==
    [mailhog_instances |-> mailhog_instances, smtp_ports |-> smtp_ports,
     api_ports |-> api_ports, open_ports |-> open_ports]

\* `mailhog_instances = []`, `smtp_ports = []`, `api_ports = []` at the top of
\* scan_mailhog_ports and `open_ports = []` ahead of the sweep: new lists in
\* every invocation.
LocalsAtEntry ==
    [mailhog_instances |-> <<>>, smtp_ports |-> <<>>, api_ports |-> <<>>,
     open_ports |-> <<>>]

\* The caller calls scan_mailhog_ports again, with the same host and range:
\* a new frame, whose locals are those the function creates; the traces of
\* the calls start anew.
Rescan ==
    /\ pc = "done"
    /\ runs + 1 < MaxRuns
    /\ runs' = runs + 1
    /\ previous' = returned
    /\ pc' = "check_default"
    /\ mailhog_instances' = LocalsAtEntry.mailhog_instances
    /\ smtp_ports' = LocalsAtEntry.smtp_ports
    /\ api_ports' = LocalsAtEntry.api_ports
    /\ open_ports' = LocalsAtEntry.open_ports
    /\ smtp_port_open' = FALSE
    /\ http_port_open' = FALSE
    /\ instance' = <<>>
    /\ port_futures' = <<>>
    /\ queue' = <<>>
    /\ running' = {}
    /\ future_result' = <<>>
    /\ consumed' = {}
    /\ smtp_i' = 0
    /\ api_i' = 0
    /\ returned' = <<>>
    /\ tcp_calls' = <<>>
    /\ smtp_calls' = <<>>
    /\ api_calls' = <<>>
    /\ UNCHANGED <<env, port_range, args, main_i>>
    /\ UNCHANGED <<verifyVars, outerVars>>

\* ------------------------------------------------------------------ main

\* The command line of test_14_scan_mailhog: four values after --port-range.
TestPortRange == <<1024, 1030, 8024, 8030>>

\* --port-range is declared with nargs=2.
nargs == 2

\* Whether the interpreter compiles the file: the f-string of the last
\* logging call of main's loop holds a double quote inside its replacement
\* field, which is a syntax error before Python 3.12.
Compiles == python = "from_3_12"

\* parser.parse_args(): exactly nargs values after --port-range; with fewer
\* the option is in error, with more the rest are unrecognized arguments.
ParseAccepts == Len(argv) = nargs

\* The process starts: the file is compiled (status 1 on a syntax error),
\* then main parses the command line (argparse exits with status 2 on an
\* error). port_range holds what the first two values ask for; main reads it
\* only once the command line is accepted.
MainParse ==
    /\ pc = "start"
    /\ IF ~Compiles
       THEN exit_status' = 1 /\ pc' = "exited"
       ELSE IF ~ParseAccepts
       THEN exit_status' = 2 /\ pc' = "exited"
       ELSE exit_status' = exit_status /\ pc' = "main"
    /\ UNCHANGED <<callerVars, verifyVars, argv, python, api_tests, dpm, aft>>
    /\ UNCHANGED <<env, port_range, smtp_port_open, http_port_open, instance,
                   port_futures, queue, running, future_result, consumed,
                   open_ports, smtp_i, smtp_ports, api_i, api_ports,
                   mailhog_instances, returned, tcp_calls, smtp_calls, api_calls>>

\* `if not instances: ... return`: main returns None and the process exits
\* with status 0.
MainNoInstances ==
    /\ pc = "done"
    /\ returned = <<>>
    /\ pc' = "exited"
    /\ exit_status' = 0
    /\ UNCHANGED <<callerVars, verifyVars, argv, python, api_tests, dpm, aft>>
    /\ UNCHANGED <<env, port_range, smtp_port_open, http_port_open, instance,
                   port_futures, queue, running, future_result, consumed,
                   open_ports, smtp_i, smtp_ports, api_i, api_ports,
                   mailhog_instances, returned, tcp_calls, smtp_calls, api_calls>>

\* The loop over the instances is over: the completion is logged, main
\* returns None and the process exits with status 0.
MainEnd ==
    /\ pc = "done"
    /\ returned # <<>>
    /\ vpc = "idle"
    /\ main_i = Len(returned)
    /\ pc' = "exited"
    /\ exit_status' = 0
    /\ UNCHANGED <<callerVars, verifyVars, argv, python, api_tests, dpm, aft>>
    /\ UNCHANGED <<env, port_range, smtp_port_open, http_port_open, instance,
                   port_futures, queue, running, future_result, consumed,
                   open_ports, smtp_i, smtp_ports, api_i, api_ports,
                   mailhog_instances, returned, tcp_calls, smtp_calls, api_calls>>

\* parser.parse_args() and `instances = scan_mailhog_ports(args.host,
\* port_range)`: the call passes the host and the range, nothing else of args.
MainCallScan ==
    /\ pc = "main"
    /\ pc' = "check_default"
    /\ UNCHANGED <<callerVars, verifyVars, outerVars>>
    /\ UNCHANGED <<env, port_range, smtp_port_open, http_port_open, instance,
                   port_futures, queue, running, future_result, consumed,
                   open_ports, smtp_i, smtp_ports, api_i, api_ports,
                   mailhog_instances, returned, tcp_calls, smtp_calls, api_calls>>

\* ------------------------------------------ verify_mailhog_functionality
\* What the instance's peers do during one verification: the answer to the
\* first GET of the messages url, what the SMTP session does, the answer to
\* the second GET. An answer is a response (status, body shape, and for a
\* listing the number of messages in it), a transport error, or a peer that
\* accepts the connection and never answers.

VRaise == [kind |-> "raise", status |-> 0, body |-> "none", count |-> 0]

VHang == [kind |-> "hang", status |-> 0, body |-> "none", count |-> 0]

VBlocked == [kind |-> "blocked", status |-> 0, body |-> "none", count |-> 0]

VResp(status, body, count) == [kind |-> "response", status |-> status, body |-> body, count |-> count]

VAnswers ==
    {VRaise, VHang, VResp(404, "text", 0), VResp(200, "text", 0),
     VResp(200, "json_object", 0), VResp(200, "json_scalar", 0)}
        \cup {VResp(200, b, n) : b \in {"json_items", "json_list"}, n \in 0 .. MaxCount}

\* The SMTP session: the message is accepted ("sent"); connect or send
\* raises ("raise"); the message is accepted and the QUIT at the end of the
\* with block is answered with an error ("quit_error"); the peer accepts the
\* connection and never greets ("hang").
SmtpOutcomes == {"sent", "raise", "quit_error", "hang"}

VerifyEnvs == [baseline : VAnswers, smtp : SmtpOutcomes, refetch : VAnswers]

\* A timeout argument: absent (None, wait for ever) or a number of seconds.
NoTimeout == [set |-> FALSE, seconds |-> 0]

Timeout(seconds) == [set |-> TRUE, seconds |-> seconds]

\* requests.get(messages_url): no timeout argument.
baseline_timeout == NoTimeout

\* smtplib.SMTP('localhost', port): no timeout argument.
smtp_timeout == NoTimeout

\* The second requests.get(messages_url): no timeout argument.
refetch_timeout == NoTimeout

\* What a GET with this timeout makes of the answer: with a timeout a silent
\* peer is an error, without one the call does not come back.
Get(answer, timeout) ==
    IF answer.kind = "hang"
    THEN IF timeout.set THEN VRaise ELSE VBlocked
    ELSE answer

\* The session with this timeout, likewise.
Session(outcome, timeout) ==
    IF outcome = "hang"
    THEN IF timeout.set THEN "raise" ELSE "blocked"
    ELSE outcome

\* message_count: an int, or the string "unknown".
IntCount(n) == [int |-> TRUE, n |-> n]

UnknownCount == [int |-> FALSE, n |-> 0]

\* Mutant of NewVerification: message_count starts as "unknown".
NewVerificationUnknown ==
    ("smtp_test" :> FALSE) @@ ("api_test" :> FALSE) @@ ("message_count" :> UnknownCount)

\* verification = {"smtp_test": False, "api_test": False, "message_count": 0}
NewVerification ==
    ("smtp_test" :> FALSE) @@ ("api_test" :> FALSE) @@ ("message_count" :> IntCount(0))

\* api_url.replace("v2", "v1") if "v2" in api_url else api_url
ReplaceV2(url) ==
    IF url[2] = "/api/v2/messages" THEN <<url[1], "/api/v1/messages">> ELSE url

\* messages_url as the first try block computes it.
MessagesUrl(inst) ==
    IF inst.api_version = "v2" THEN inst.api_url ELSE ReplaceV2(inst.api_url)

\* data = response.json() and the branches that set message_count: raises on
\* a body that is no JSON and on the membership test of a number.
BaselineCount(api_version, answer) ==
    IF answer.body = "text" THEN Raise
    ELSE IF api_version = "v2" /\ answer.body = "json_scalar" THEN Raise
    ELSE IF api_version = "v2" /\ answer.body = "json_items" THEN Return(IntCount(answer.count))
    ELSE IF answer.body = "json_list" THEN Return(IntCount(answer.count))
    ELSE Return(UnknownCount)

\* The first try block, given what the GET came back with.
ApiStageResult(v, api_version, answer) ==
    IF answer.kind = "raise" \/ answer.status # 200
    THEN v
    ELSE LET counted == BaselineCount(api_version, answer)
         IN  IF counted.raised
             THEN [v EXCEPT !["api_test"] = TRUE]
             ELSE [v EXCEPT !["api_test"] = TRUE, !["message_count"] = counted.value]

\* new_count of the re-check, with its default 0.
NewCount(api_version, answer) ==
    IF answer.body = "text" THEN Raise
    ELSE IF api_version = "v2" /\ answer.body = "json_scalar" THEN Raise
    ELSE IF api_version = "v2" /\ answer.body = "json_items" THEN Return(answer.count)
    ELSE IF answer.body = "json_list" THEN Return(answer.count)
    ELSE Return(0)

\* Mutant of MessageReceived: `>=` for `>`.
MessageReceivedGe(new_count, baseline) ==
    IF baseline.int THEN new_count >= baseline.n ELSE TRUE

\* new_count > message_count if isinstance(message_count, int) else True
MessageReceived(new_count, baseline) ==
    IF baseline.int THEN new_count > baseline.n ELSE TRUE

\* Mutant of RecheckGate: the gate as its comment words it, "if API is
\* working".
RecheckGateApiOnly(v) == v["api_test"]

\* `if verification["api_test"] and verification["smtp_test"]`
RecheckGate(v) == v["api_test"] /\ v["smtp_test"]

\* The inner try block of the re-check, given what the GET came back with.
RecheckResult(v, api_version, answer) ==
    IF answer.kind = "raise"
    THEN v @@ ("message_received" :> FALSE)
    ELSE IF answer.status # 200
    THEN v
    ELSE LET counted == NewCount(api_version, answer)
         IN  IF counted.raised
             THEN v @@ ("message_received" :> FALSE)
             ELSE v @@ ("message_received" :> MessageReceived(counted.value, v["message_count"]))

\* main's loop `for i, instance in enumerate(instances)` calls the function
\* with the next instance of the result.
VerifyCall ==
    /\ pc = "done"
    /\ vpc = "idle"
    /\ main_i < Len(returned)
    /\ vinstance' = returned[main_i + 1]
    /\ venv' \in VerifyEnvs
    /\ verification' = NewVerification
    /\ messages_url' = <<>>
    /\ net_ops' = <<>>
    /\ vpc' = "api"
    /\ UNCHANGED <<args, runs, previous, main_i>>
    /\ UNCHANGED outerVars
    /\ UNCHANGED <<env, port_range, pc, smtp_port_open, http_port_open, instance,
                   port_futures, queue, running, future_result, consumed,
                   open_ports, smtp_i, smtp_ports, api_i, api_ports,
                   mailhog_instances, returned, tcp_calls, smtp_calls, api_calls>>

\* An operation of the verification, as net_ops records it.
Op(name, timeout) == [op |-> name, timeout |-> timeout]

\* `except Exception as e: logging.error(...)` of the first try block: on to
\* the SMTP stage.
ApiStageExcept == "smtp"

\* Whether the first try block raises.
ApiStageRaises(api_version, answer) ==
    \/ answer.kind = "raise"
    \/ answer.status = 200 /\ BaselineCount(api_version, answer).raised

\* "Check API first": the first try block.
ApiStage ==
    /\ vpc = "api"
    /\ messages_url' = MessagesUrl(vinstance)
    /\ net_ops' = Append(net_ops, Op("baseline_get", baseline_timeout))
    /\ LET answer == Get(venv.baseline, baseline_timeout)
       IN  IF answer.kind = "blocked"
           THEN /\ vpc' = "blocked"
                /\ UNCHANGED verification
           ELSE /\ verification' = ApiStageResult(verification, vinstance.api_version, answer)
                /\ vpc' = IF ApiStageRaises(vinstance.api_version, answer)
                          THEN ApiStageExcept
                          ELSE "smtp"
    /\ UNCHANGED <<vinstance, venv>>
    /\ UNCHANGED <<args, runs, previous, main_i>>
    /\ UNCHANGED outerVars
    /\ UNCHANGED <<env, port_range, pc, smtp_port_open, http_port_open, instance,
                   port_futures, queue, running, future_result, consumed,
                   open_ports, smtp_i, smtp_ports, api_i, api_ports,
                   mailhog_instances, returned, tcp_calls, smtp_calls, api_calls>>

\* Mutant of SmtpStageExcept: no except clause, the error escapes.
SmtpStageReraise == "raised"

\* `except Exception as e: logging.error(...)` of the second try block: on
\* to the re-check.
SmtpStageExcept == "recheck"

\* "Send test email via SMTP": the second try block. smtp_test is set inside
\* the with block, after send_message and before the QUIT of its exit.
SmtpStage ==
    /\ vpc = "smtp"
    /\ net_ops' = Append(net_ops, Op("smtp_session", smtp_timeout))
    /\ LET outcome == Session(venv.smtp, smtp_timeout)
       IN  CASE outcome = "blocked" ->
                    /\ vpc' = "blocked"
                    /\ UNCHANGED verification
             [] outcome = "sent" ->
                    /\ verification' = [verification EXCEPT !["smtp_test"] = TRUE]
                    /\ vpc' = "recheck"
             [] outcome = "quit_error" ->
                    /\ verification' = [verification EXCEPT !["smtp_test"] = TRUE]
                    /\ vpc' = SmtpStageExcept
             [] OTHER ->
                    /\ UNCHANGED verification
                    /\ vpc' = SmtpStageExcept
    /\ UNCHANGED <<vinstance, venv, messages_url>>
    /\ UNCHANGED <<args, runs, previous, main_i>>
    /\ UNCHANGED outerVars
    /\ UNCHANGED <<env, port_range, pc, smtp_port_open, http_port_open, instance,
                   port_futures, queue, running, future_result, consumed,
                   open_ports, smtp_i, smtp_ports, api_i, api_ports,
                   mailhog_instances, returned, tcp_calls, smtp_calls, api_calls>>

\* "Verify email arrived (if API is working)": the gate, time.sleep(1), the
\* second GET and the comparison; then `return verification`.
Recheck ==
    /\ vpc = "recheck"
    /\ IF RecheckGate(verification)
       THEN /\ net_ops' = net_ops \o <<Op("sleep", Timeout(1)), Op("refetch_get", refetch_timeout)>>
            /\ LET answer == Get(venv.refetch, refetch_timeout)
               IN  IF answer.kind = "blocked"
                   THEN /\ vpc' = "blocked"
                        /\ UNCHANGED verification
                   ELSE /\ verification' = RecheckResult(verification, vinstance.api_version, answer)
                        /\ vpc' = "returned"
       ELSE /\ vpc' = "returned"
            /\ UNCHANGED <<verification, net_ops>>
    /\ UNCHANGED <<vinstance, venv, messages_url>>
    /\ UNCHANGED <<args, runs, previous, main_i>>
    /\ UNCHANGED outerVars
    /\ UNCHANGED <<env, port_range, pc, smtp_port_open, http_port_open, instance,
                   port_futures, queue, running, future_result, consumed,
                   open_ports, smtp_i, smtp_ports, api_i, api_ports,
                   mailhog_instances, returned, tcp_calls, smtp_calls, api_calls>>

\* The five endpoints of test_mailhog_api_endpoints, in the order of the list.
api_endpoints ==
    <<"List Messages (v2)", "List Messages (v1)", "Events Stream", "Search (v2)", "Search (v1)">>

\* What the web_ui host answers to the five GETs: nothing listens; every
\* endpoint 404; every endpoint 200; a MailHog (the events stream never ends
\* and runs into the read timeout); one with the v2 endpoints only; one with
\* the v1 endpoints only.
EndpointHosts ==
    {<<ConnError, ConnError, ConnError, ConnError, ConnError>>,
     <<Resp(404, "text"), Resp(404, "text"), Resp(404, "text"), Resp(404, "text"), Resp(404, "text")>>,
     <<Resp(200, "text"), Resp(200, "text"), Resp(200, "text"), Resp(200, "text"), Resp(200, "text")>>,
     <<Resp(200, "json_items"), Resp(200, "json_list"), ConnError, Resp(200, "json_items"), Resp(404, "text")>>,
     <<Resp(200, "json_items"), Resp(404, "text"), Resp(404, "text"), Resp(200, "json_items"), Resp(404, "text")>>,
     <<Resp(404, "text"), Resp(200, "json_list"), ConnError, Resp(404, "text"), Resp(200, "json_list")>>}

\* One entry of results: status_code is the status, or "Error" when the GET
\* raised (error TRUE).
EndpointResult(name, response) ==
    IF response.raised
    THEN [endpoint |-> name, error |-> TRUE, status_code |-> 0, working |-> FALSE]
    ELSE [endpoint |-> name, error |-> FALSE, status_code |-> response.status,
          working |-> response.status = 200]

\* test_mailhog_api_endpoints(instance): one entry per endpoint, whatever
\* the GET did.
test_mailhog_api_endpoints(host) ==
    [k \in 1 .. Len(api_endpoints) |-> EndpointResult(api_endpoints[k], host[k])]

\* Back in main's loop: the verification is printed, the endpoints are
\* tested and printed, and the loop goes on to the next instance.
MainNextInstance ==
    /\ vpc = "returned"
    /\ vpc' = "idle"
    /\ main_i' = main_i + 1
    /\ \E host \in EndpointHosts : api_tests' = test_mailhog_api_endpoints(host)
    /\ UNCHANGED <<vinstance, venv, verification, messages_url, net_ops>>
    /\ UNCHANGED <<args, runs, previous, argv, python, exit_status, dpm, aft>>
    /\ UNCHANGED <<env, port_range, pc, smtp_port_open, http_port_open, instance,
                   port_futures, queue, running, future_result, consumed,
                   open_ports, smtp_i, smtp_ports, api_i, api_ports,
                   mailhog_instances, returned, tcp_calls, smtp_calls, api_calls>>

\* ------------------------------------------------------ specifications

Next ==
    \/ CheckDefaultPorts
    \/ ClassifyDefault
    \/ DefaultReturn
    \/ Submit
    \/ WorkerStart
    \/ WorkerFinish
    \/ TakeResult
    \/ SweepEnd
    \/ SmtpStep
    \/ SmtpEnd
    \/ ApiStep
    \/ ApiEnd
    \/ Correlate

Spec == Init /\ [][Next]_vars

SpecApi == InitApi /\ [][Next]_vars

\* Under InitPool every port answers alike (refused), so the probes in flight
\* are interchangeable and which of them returns next changes nothing but
\* the names: the probe of the lowest port stands for any of them. The
\* passes over open_ports have no port to visit.
FinishOldest ==
    /\ running # {}
    /\ Finish(CHOOSE port \in running : \A other \in running : port <= other)

NextPool ==
    \/ CheckDefaultPorts
    \/ Submit
    \/ WorkerStart
    \/ FinishOldest
    \/ TakeResult
    \/ SweepEnd
    \/ SmtpEnd
    \/ ApiEnd
    \/ Correlate

SpecPool == InitPool /\ [][NextPool]_vars

\* The services of the default HTTP port under SpecVerify, one per version
\* is_mailhog_api can report.
V2Only ==
    [tcp |-> "open", greeting |-> NoGreeting,
     http |-> Http(Resp(404, "text"), Resp(200, "json_items"),
                   Resp(404, "text"), Resp(200, "html_mailhog"))]

ApiRootOnly ==
    [tcp |-> "open", greeting |-> NoGreeting,
     http |-> Http(Resp(404, "text"), Resp(404, "text"),
                   Resp(200, "text"), Resp(200, "html_mailhog"))]

\* What a port may do to its probes: refuse, stay silent, make the probe
\* fail; or accept, and then greet with any of the banners, with nothing
\* (the peer closes), or not at all (connect or recv of the classifier
\* fails), without speaking HTTP; or be MailHog's HTTP port, or SMTP and API
\* at once.
ProbeServices ==
    {Closed, Filtered, Erroring, MailHogHttp, BothService}
        \cup {[tcp |-> "open", greeting |-> g, http |-> NoHttp] :
                g \in {NoGreeting, Greeting(<<>>), Greeting(BannerMailHog),
                       Greeting(Banner220), Greeting(BannerHello),
                       Greeting(BannerEsmtp), Greeting(BannerProduct),
                       Greeting(BannerLower), Greeting(BannerBroken)}}

\* A scan of RangeLo .. DEFAULT_SMTP_PORT of a host whose ports each do any
\* of ProbeServices.
InitProbe ==
    /\ port_range = <<RangeLo, DEFAULT_SMTP_PORT>>
    /\ env \in [Universe -> ProbeServices]
    /\ Start
    /\ FirstCall
    /\ VerifyIdle
    /\ OuterIdle

SpecProbe == InitProbe /\ [][Next]_vars

\* A caller that scans RangeLo .. RangeLo + n - 1 of a host whose ports each
\* run one of Services, MaxRuns times in a row.
InitRerun ==
    /\ port_range \in {<<RangeLo, RangeLo + n - 1>> : n \in 0 .. MaxRange - 1}
    /\ env \in [Universe -> Services]
    /\ Start
    /\ FirstCall
    /\ VerifyIdle
    /\ OuterIdle

NextRerun ==
    \/ Next
    \/ Rescan

SpecRerun == InitRerun /\ [][NextRerun]_vars

\* main run with `--port-range RangeLo hi`, with or without
\* --skip-default-check, against a host whose ports each run one of Services.
InitMain ==
    /\ pc = "main"
    /\ args \in [skip_default_check : BOOLEAN]
    /\ port_range \in {<<RangeLo, RangeLo + n - 1>> : n \in 0 .. MaxRange - 1}
    /\ env \in [Universe -> Services]
    /\ NotScanned
    /\ runs = 0
    /\ previous = <<>>
    /\ main_i = 0
    /\ VerifyIdle
    /\ OuterIdle

NextMain ==
    \/ MainCallScan
    \/ Next

SpecMain == InitMain /\ [][NextMain]_vars

\* main run without flags against a host with a complete instance on the
\* default ports, of any of the four versions: the scan returns it, and it
\* is verified against peers that answer in any of VerifyEnvs.
InitVerify ==
    /\ pc = "main"
    /\ port_range = <<RangeLo, RangeLo>>
    /\ env \in {(RangeLo :> Closed) @@ (DEFAULT_SMTP_PORT :> SmtpService)
                    @@ (DEFAULT_HTTP_PORT :> h) :
                 h \in {MailHogHttp, V2Only, ApiRootOnly, WebUiOnly}}
    /\ NotScanned
    /\ FirstCall
    /\ VerifyIdle
    /\ OuterIdle

NextVerify ==
    \/ MainCallScan
    \/ CheckDefaultPorts
    \/ ClassifyDefault
    \/ DefaultReturn
    \/ VerifyCall
    \/ ApiStage
    \/ SmtpStage
    \/ Recheck
    \/ MainNextInstance
    \/ MainEnd

SpecVerify == InitVerify /\ [][NextVerify]_vars

\* The hosts of SpecCli: SMTP on the default SMTP port, the default HTTP port
\* closed or answering as any of the four versions, nothing else listening.
CliHosts ==
    {[p \in Universe |->
        IF p = DEFAULT_SMTP_PORT THEN SmtpService
        ELSE IF p = DEFAULT_HTTP_PORT THEN h
        ELSE Closed] :
     h \in {Closed, MailHogHttp, V2Only, ApiRootOnly, WebUiOnly}}

\* The scanner run as a command, by an interpreter older than 3.12 or not,
\* with two values after --port-range or with the four of the test.
InitCli ==
    /\ pc = "start"
    /\ python \in {"before_3_12", "from_3_12"}
    /\ argv \in {<<RangeLo, DEFAULT_SMTP_PORT>>, TestPortRange}
    /\ port_range = <<argv[1], argv[2]>>
    /\ env \in CliHosts
    /\ exit_status = -1
    /\ api_tests = <<>>
    /\ NotScanned
    /\ FirstCall
    /\ VerifyIdle
    /\ DpmIdle
    /\ AftIdle

NextCli ==
    \/ MainParse
    \/ MainNoInstances
    \/ MainEnd
    \/ NextVerify
    \/ Next

SpecCli == InitCli /\ [][NextCli]_vars

\* ---------------------------------------------------------- properties

Range(seq) == {seq[k] : k \in 1 .. Len(seq)}

\* The ports of the range in ascending order.
RangeSeq == [k \in 1 .. (hi - lo + 1) |-> lo + k - 1]

\* The host answers as a complete instance on the default ports: both are
\* open, the SMTP one greets as SMTP, the HTTP one classifies positively.
DefaultsAnswer ==
    /\ check_tcp_port(DEFAULT_SMTP_PORT)
    /\ check_tcp_port(DEFAULT_HTTP_PORT)
    /\ is_smtp_port(DEFAULT_SMTP_PORT)
    /\ is_mailhog_api(DEFAULT_HTTP_PORT).is_api

AfterSweep == pc \in {"smtp_pass", "api_pass", "correlate", "done"}

\* C1: when both default ports probe open and both classify positively, the
\* scan never enters the sweep (nothing is submitted, queued or in flight,
\* and check_tcp_port is called for the two default ports only) and what it
\* returns is exactly one instance, with smtp_port 1025 and api_port 8025.
C1_DefaultShortcut ==
    DefaultsAnswer =>
        /\ pc \in {"check_default", "classify_default", "default_return", "done"}
        /\ port_futures = <<>> /\ queue = <<>> /\ running = {}
        /\ tcp_calls \in {<<>>, <<DEFAULT_SMTP_PORT, DEFAULT_HTTP_PORT>>}
        /\ pc = "done" =>
              /\ tcp_calls = <<DEFAULT_SMTP_PORT, DEFAULT_HTTP_PORT>>
              /\ Len(returned) = 1
              /\ returned[1].smtp_port = DEFAULT_SMTP_PORT
              /\ returned[1].api_port = DEFAULT_HTTP_PORT

C1_Witness == DefaultsAnswer /\ pc = "done" /\ hi >= lo

\* C2: whenever the default ports do not answer as a complete instance, the
\* scan submits one check_tcp_port per port of lo..hi, in ascending order,
\* each port once and none outside the range, and the workers call
\* check_tcp_port for exactly these; at no time is a port submitted twice or
\* from outside the range.
C2_FullSweep ==
    /\ \A i, j \in 1 .. Len(port_futures) :
          /\ port_futures[i] \in lo .. hi
          /\ i # j => port_futures[i] # port_futures[j]
    /\ (~DefaultsAnswer /\ AfterSweep) =>
          /\ port_futures = RangeSeq
          /\ tcp_calls = <<DEFAULT_SMTP_PORT, DEFAULT_HTTP_PORT>> \o RangeSeq

C2_Witness ==
    /\ ~DefaultsAnswer
    /\ check_tcp_port(DEFAULT_SMTP_PORT)
    /\ pc = "done"
    /\ Len(port_futures) >= 2

\* The probes in flight: submitted, taken from the queue, not yet returned.
InFlight == {port \in Range(port_futures) : port \notin Range(queue) /\ port \notin DOMAIN future_result}

\* C3: at every moment of the sweep at most max_workers (50) check_tcp_port
\* probes are in flight, also when the range holds more ports than that; the
\* others wait in the queue until a probe in flight returns.
C3_BoundedConcurrency == Cardinality(InFlight) <= max_workers

C3_Witness == Cardinality(InFlight) = max_workers /\ queue # <<>>

\* What the scan must return, from the host and the range alone.
IsApiPort(port) == is_mailhog_api(port).is_api

OpenAscending == SelectSeq(RangeSeq, check_tcp_port)

SmtpAscending == SelectSeq(OpenAscending, is_smtp_port)

ApiAscending == SelectSeq(OpenAscending, IsApiPort)

ApiKept ==
    IF SmtpAscending # <<>> /\ ApiAscending # <<>> THEN <<ApiAscending[1]>> ELSE ApiAscending

ExpectedSweep ==
    LET m == Len(SmtpAscending)
        n == Len(ApiKept)
        api(k) == ApiKept[((k - 1) % n) + 1]
    IN  [k \in 1 .. m * n |->
            InstanceOf(SmtpAscending[((k - 1) \div n) + 1],
                       ApiInfo(api(k), is_mailhog_api(api(k))))]

ExpectedDefault ==
    <<InstanceOf(DEFAULT_SMTP_PORT,
                 ApiInfo(DEFAULT_HTTP_PORT, is_mailhog_api(DEFAULT_HTTP_PORT)))>>

Expected == IF DefaultsAnswer THEN ExpectedDefault ELSE ExpectedSweep

\* C4: whatever the order in which the probes start and return, each
\* future holds the outcome of its own port's probe, open_ports holds exactly
\* the ports whose future was taken with result true, each once, after the
\* sweep these are exactly the open ports of lo..hi, and the list the scan
\* returns is the one the host and the range determine.
C4_CompletionOrderIndependence ==
    /\ \A port \in DOMAIN future_result : future_result[port] = check_tcp_port(port)
    /\ Range(open_ports) = {port \in consumed : future_result[port]}
    /\ Len(open_ports) = Cardinality(Range(open_ports))
    /\ (~DefaultsAnswer /\ AfterSweep) =>
          Range(open_ports) = {port \in SweepPorts : check_tcp_port(port)}
    /\ pc = "done" => returned = Expected

\* The probe of an open port has returned while the probe of an open port
\* submitted before it is still in flight.
C4_Witness ==
    \E early \in running, late \in DOMAIN future_result :
        /\ early < late
        /\ check_tcp_port(early)
        /\ future_result[late]

IsPrefix(a, b) == Len(a) <= Len(b) /\ \A k \in 1 .. Len(a) : a[k] = b[k]

IsApiPath(path) == path # RootPath

\* The api paths one call requested, in order (the bare url left out).
ApiRequests(call) == SelectSeq(call.requests, IsApiPath)

\* One call requested the api paths in the order `order`, stopped at the
\* first that matched and returned it, and went on to the bare url only
\* when none matched.
FirstMatchWins(call, order) ==
    LET req == ApiRequests(call)
        http == env[call.port].http
        n == Len(req)
    IN  /\ IsPrefix(req, order)
        /\ n >= 1
        /\ \A k \in 1 .. n - 1 : ~PathMatches(req[k], http[req[k]])
        /\ IF PathMatches(req[n], http[req[n]])
           THEN /\ call.requests = req
                /\ call.result = <<TRUE, VersionOf(req[n]), req[n]>>
           ELSE /\ n = Len(order)
                /\ call.requests = req \o <<RootPath>>

\* C5 as claimed: every is_mailhog_api call requests /api/v2/messages first,
\* then /api/v1/messages, then /api, and stops at the first that matches.
C5_Original ==
    \A k \in 1 .. Len(api_calls) :
        FirstMatchWins(api_calls[k], <<"/api/v2/messages", "/api/v1/messages", "/api">>)

\* C5 amended: every is_mailhog_api call requests /api/v1/messages first,
\* then /api/v2/messages, then /api; the first path that matches wins and no
\* path later in that order is requested.
C5_PathPrecedence ==
    \A k \in 1 .. Len(api_calls) :
        FirstMatchWins(api_calls[k], <<"/api/v1/messages", "/api/v2/messages", "/api">>)

\* A call that went past a failing v1 listing and stopped at the v2 listing,
\* on a port whose /api would have answered 200 too.
C5_Witness ==
    \E k \in 1 .. Len(api_calls) :
        /\ api_calls[k].requests = <<"/api/v1/messages", "/api/v2/messages">>
        /\ env[api_calls[k].port].http["/api"] = Resp(200, "text")

\* GET /api/v2/messages answers 200 with a JSON object holding `items`.
V2Valid(port) == env[port].http["/api/v2/messages"] = Resp(200, "json_items")

\* GET /api/v1/messages does not match: it raises, or is not a 200, or its
\* body is no JSON.
V1Fails(port) ==
    LET r == env[port].http["/api/v1/messages"]
    IN  r.raised \/ r.status # 200 \/ r.body \in {"text", "html_mailhog"}

ReturnsV2(call) == call.result = <<TRUE, "v2", "/api/v2/messages">>

\* C6 as claimed: a valid v2 answer makes is_mailhog_api return
\* (True, "v2", "/api/v2/messages") whatever the other paths answer, and the
\* instance of such a port has api_version "v2".
C6_Original ==
    /\ \A k \in 1 .. Len(api_calls) :
          V2Valid(api_calls[k].port) => ReturnsV2(api_calls[k])
    /\ pc = "done" =>
          \A k \in 1 .. Len(returned) :
              V2Valid(returned[k].api_port) => returned[k].api_version = "v2"

\* C6 amended: a valid v2 answer makes is_mailhog_api return
\* (True, "v2", "/api/v2/messages") whenever /api/v1/messages does not match
\* (it is tried first), whatever /api and the bare url answer; the instance
\* of such a port has api_version "v2".
C6_V2Classification ==
    /\ \A k \in 1 .. Len(api_calls) :
          (V2Valid(api_calls[k].port) /\ V1Fails(api_calls[k].port)) =>
              ReturnsV2(api_calls[k])
    /\ pc = "done" =>
          \A k \in 1 .. Len(returned) :
              (V2Valid(returned[k].api_port) /\ V1Fails(returned[k].api_port)) =>
                  returned[k].api_version = "v2"

\* The default ports answer as SMTP and as a v2-only API whose /api and
\* bare url would match too, and the scan returned the instance.
C6_Witness ==
    /\ pc = "done"
    /\ Len(returned) = 1
    /\ returned[1].api_port = DEFAULT_HTTP_PORT
    /\ V2Valid(DEFAULT_HTTP_PORT) /\ V1Fails(DEFAULT_HTTP_PORT)
    /\ env[DEFAULT_HTTP_PORT].http["/api"] = Resp(200, "json_list")
    /\ env[DEFAULT_HTTP_PORT].http[RootPath] = Resp(200, "html_mailhog")

\* The scan went through the sweep and returned.
SweepReturned == pc = "done" /\ ~DefaultsAnswer

\* C7: the list returned by the sweep path holds exactly m*n instances for
\* the m ports of smtp_ports and the n entries of api_ports: each pair
\* (smtp port, api port) exactly once and nothing else, so none when either
\* list is empty.
C7_CrossProduct ==
    SweepReturned =>
        LET m == Len(smtp_ports)
            n == Len(api_ports)
            At(i, j) == {k \in 1 .. Len(returned) :
                            /\ returned[k].smtp_port = smtp_ports[i]
                            /\ returned[k].api_port = api_ports[j].port}
        IN  /\ Len(returned) = m * n
            /\ \A i \in 1 .. m, j \in 1 .. n : Cardinality(At(i, j)) = 1
            /\ \A k \in 1 .. Len(returned) : \E i \in 1 .. m, j \in 1 .. n : k \in At(i, j)
            /\ (m = 0 \/ n = 0) => returned = <<>>

C7_Witness == SweepReturned /\ Len(smtp_ports) = 2 /\ Len(api_ports) = 1

IsSweepCall(call) == call.phase = "sweep"

\* The is_mailhog_api calls of the API pass, in order.
SweepCalls == SelectSeq(api_calls, IsSweepCall)

\* C8: the API pass classifies the open ports in their order and makes no
\* further call once an API candidate exists beside an SMTP candidate; it
\* ends having classified every open port when there is no SMTP candidate
\* (or no API candidate was found), and right at the first API candidate
\* otherwise.
C8_EarlyExit ==
    LET calls == SweepCalls
        n == Len(calls)
    IN  /\ n <= Len(open_ports)
        /\ \A k \in 1 .. n : calls[k].port = open_ports[k]
        /\ smtp_ports # <<>> => \A k \in 1 .. n - 1 : ~calls[k].result[1]
        /\ (pc \in {"correlate", "done"} /\ ~DefaultsAnswer) =>
              IF smtp_ports = <<>> \/ api_ports = <<>>
              THEN n = Len(open_ports)
              ELSE calls[n].result[1] /\ Len(api_ports) = 1

\* The pass stopped at an API candidate and left an open port unclassified.
C8_Witness ==
    /\ SweepReturned
    /\ smtp_ports # <<>>
    /\ api_ports # <<>>
    /\ Len(SweepCalls) < Len(open_ports)

\* One of the api paths matches on the port.
ApiPathMatched(port) ==
    \E path \in AllPaths \ {RootPath} : PathMatches(path, env[port].http[path])

\* The page at the bare url holds the product name.
RootHasMailHog(port) ==
    LET r == env[port].http[RootPath]
    IN  ~r.raised /\ r.body = "html_mailhog"

\* C9 as claimed: every returned instance pairs a port classified SMTP with
\* a port matched on one of the api paths.
C9_Original ==
    pc = "done" =>
        \A k \in 1 .. Len(returned) :
            /\ is_smtp_port(returned[k].smtp_port)
            /\ ApiPathMatched(returned[k].api_port)

\* The default ports answer as SMTP and as a web interface only.
WebOnlyDefaults ==
    /\ check_tcp_port(DEFAULT_SMTP_PORT) /\ is_smtp_port(DEFAULT_SMTP_PORT)
    /\ check_tcp_port(DEFAULT_HTTP_PORT)
    /\ ~ApiPathMatched(DEFAULT_HTTP_PORT) /\ RootHasMailHog(DEFAULT_HTTP_PORT)

\* C9 amended: a port on which no api path matches but whose root page
\* holds the product name is reported by is_mailhog_api as a match of
\* version "web_interface" at path "/", and is an API candidate like any
\* other: every returned instance pairs a port classified SMTP with a port
\* matched on an api path (version v1, v2 or unknown) or by the root-page
\* fallback alone (version "web_interface"), and such a port on the default
\* HTTP port supplies the API side of the default instance.
C9_WebUiIsCandidate ==
    pc = "done" =>
        /\ \A k \in 1 .. Len(returned) :
              LET inst == returned[k]
              IN  /\ is_smtp_port(inst.smtp_port)
                  /\ IF ApiPathMatched(inst.api_port)
                     THEN inst.api_version \in {"v1", "v2", "unknown"}
                     ELSE /\ RootHasMailHog(inst.api_port)
                          /\ inst.api_version = "web_interface"
                          /\ inst.api_url = Url(inst.api_port, RootPath)
        /\ WebOnlyDefaults =>
              /\ Len(returned) = 1
              /\ returned[1].api_port = DEFAULT_HTTP_PORT
              /\ returned[1].api_version = "web_interface"

\* The sweep returned an instance whose API side is a web interface only.
C9_Witness ==
    /\ SweepReturned
    /\ \E k \in 1 .. Len(returned) :
          /\ returned[k].api_version = "web_interface"
          /\ returned[k].smtp_port # returned[k].api_port

\* The ports this invocation probed and found open, and those it classified.
ProbedOpen == {port \in Range(tcp_calls) : check_tcp_port(port)}

ClassifiedSmtp == {port \in Range(smtp_calls) : is_smtp_port(port)}

ClassifiedApi == {api_calls[k].port : k \in {j \in 1 .. Len(api_calls) : api_calls[j].result[1]}}

\* C10: in every returned instance smtp_port is a port this invocation
\* probed open and classified as SMTP, and api_port one it probed open and
\* classified as API; on the sweep path they are entries of smtp_ports and
\* of api_ports, both taken from open_ports.
C10_InstanceInvariant ==
    pc = "done" =>
        \A k \in 1 .. Len(returned) :
            /\ returned[k].smtp_port \in ProbedOpen \cap ClassifiedSmtp
            /\ returned[k].api_port \in ProbedOpen \cap ClassifiedApi
            /\ ~DefaultsAnswer =>
                  /\ returned[k].smtp_port \in Range(smtp_ports) \cap Range(open_ports)
                  /\ returned[k].api_port \in Range(open_ports)
                  /\ \E j \in 1 .. Len(api_ports) : api_ports[j].port = returned[k].api_port

C10_Witness ==
    /\ SweepReturned
    /\ Len(returned) >= 2
    /\ \A k \in 1 .. Len(returned) : returned[k].smtp_port # returned[k].api_port

\* ---------------------------------------------- properties: verification

\* The verification has returned and its re-check was evaluated: both tests
\* passed, the second GET was answered 200 and its listing could be counted.
RecheckEvaluated ==
    /\ vpc = "returned"
    /\ verification["api_test"]
    /\ verification["smtp_test"]
    /\ venv.refetch.kind = "response"
    /\ venv.refetch.status = 200
    /\ ~NewCount(vinstance.api_version, venv.refetch).raised

\* C11: when the re-check is evaluated, message_received is true if the
\* baseline is a known integer and the new count is greater, false if the
\* baseline is a known integer and the new count is not greater, and true
\* whenever the baseline is unknown, whatever the new count.
C11_OutcomeRule ==
    RecheckEvaluated =>
        /\ "message_received" \in DOMAIN verification
        /\ LET baseline == verification["message_count"]
               new_count == NewCount(vinstance.api_version, venv.refetch).value
           IN  /\ (baseline.int /\ new_count > baseline.n) => verification["message_received"]
               /\ (baseline.int /\ new_count <= baseline.n) => ~verification["message_received"]
               /\ ~baseline.int => verification["message_received"]

\* A re-check that found as many messages as the baseline, more than none,
\* and said the message was not received.
C11_Witness ==
    /\ RecheckEvaluated
    /\ verification["message_count"].int
    /\ verification["message_count"].n > 0
    /\ NewCount(vinstance.api_version, venv.refetch).value = verification["message_count"].n
    /\ ~verification["message_received"]

\* The SMTP stage is over (the verification is at the re-check or has returned).
PastSmtp == vpc \in {"recheck", "returned"}

\* The API stage is over.
PastApi == vpc \in {"smtp", "recheck", "returned"}

SmtpAttempted == \E k \in 1 .. Len(net_ops) : net_ops[k].op = "smtp_session"

\* What the API stage recorded, from the answer to its GET.
ApiRecorded == ApiStageResult(NewVerification, vinstance.api_version, venv.baseline)

\* The GET of the API stage raised or was answered with another status than 200.
ApiGetFailed ==
    \/ venv.baseline.kind = "raise"
    \/ venv.baseline.kind = "response" /\ venv.baseline.status # 200

\* The GET was answered 200 and the body raised while it was parsed or counted.
ApiParseFailed ==
    /\ venv.baseline.kind = "response"
    /\ venv.baseline.status = 200
    /\ BaselineCount(vinstance.api_version, venv.baseline).raised

\* No exception leaves the function, and an SMTP session that raises before
\* the message is sent leaves smtp_test false and the API stage's values.
StagesIsolated ==
    /\ vpc # "raised"
    /\ (PastSmtp /\ venv.smtp = "raise") =>
            /\ ~verification["smtp_test"]
            /\ verification["api_test"] = ApiRecorded["api_test"]
            /\ verification["message_count"] = ApiRecorded["message_count"]

\* C12 as stated: no stage's failure aborts the others or reaches the
\* caller; a failed SMTP send leaves smtp_test false and the API stage's
\* api_test and baseline; a failed API stage (its try block raised, or the
\* status was not 200) leaves api_test false and the SMTP round trip is
\* still attempted.
C12_Original ==
    /\ StagesIsolated
    /\ (PastApi /\ (ApiGetFailed \/ ApiParseFailed)) =>
            /\ ~verification["api_test"]
            /\ vpc = "smtp" \/ SmtpAttempted

\* C12 (amended): as above, where the API stage leaves api_test false when
\* its GET raises or is answered with another status than 200; when the GET
\* is answered 200 and the body cannot be parsed or counted, api_test is
\* already true and the baseline is still 0; in both cases the SMTP round
\* trip is still attempted.
C12_GracefulDegradation ==
    /\ StagesIsolated
    /\ (PastApi /\ ApiGetFailed) =>
            /\ ~verification["api_test"]
            /\ vpc = "smtp" \/ SmtpAttempted
    /\ (PastApi /\ ApiParseFailed) =>
            /\ verification["api_test"]
            /\ verification["message_count"] = IntCount(0)
            /\ vpc = "smtp" \/ SmtpAttempted

\* A verification that returned after its SMTP session raised, with the API
\* stage's api_test and a baseline of two messages.
C12_Witness ==
    /\ vpc = "returned"
    /\ venv.smtp = "raise"
    /\ ~verification["smtp_test"]
    /\ verification["api_test"]
    /\ verification["message_count"] = IntCount(MaxCount)

\* C13: no operation blocks indefinitely: each network operation of the
\* verification (the baseline GET, the SMTP session, the re-fetch GET)
\* carries a timeout, so the verification is never left waiting for a peer
\* that accepted the connection and does not answer.
C13_NoIndefiniteBlock ==
    /\ vpc # "blocked"
    /\ \A k \in 1 .. Len(net_ops) : net_ops[k].timeout.set

\* -------------------------------------------------- properties: main

\* C14: with --skip-default-check the scan does not take the shortcut: the
\* default ports are not probed ahead of the sweep (every probe is a probe
\* of the sweep, of a port of the range), and a scan that has returned has
\* swept the whole range, whatever is live on the default ports.
C14_SkipFlagHonoured ==
    args.skip_default_check =>
        /\ \A k \in 1 .. Len(tcp_calls) : tcp_calls[k] \in SweepPorts
        /\ Len(tcp_calls) <= Cardinality(SweepPorts)
        /\ \A k \in 1 .. Len(api_calls) : api_calls[k].phase = "sweep"
        /\ pc = "done" => Len(port_futures) = Cardinality(SweepPorts)

\* ------------------------------------------------ properties: the probes

\* The ports a returned instance may name: those that accepted the connect
\* and, for the SMTP port, sent a greeting.
Accepting(port) == env[port].tcp = "open"

\* C15: the scan never aborts: whatever each port does to its probe and to
\* the classifiers (open, refused, timed out, probe error, classifier
\* error), no exception leaves scan_mailhog_ports, the scan always has a
\* next step until it has returned, and what it returns is the default
\* instance or the list of matched instances, naming only ports whose probe
\* and classification succeeded.
C15_ScanNeverAborts ==
    /\ pc # "raised"
    /\ pc = "done" \/ ENABLED Next
    /\ pc = "done" =>
          /\ returned = <<instance>> \/ returned = mailhog_instances
          /\ \A k \in 1 .. Len(returned) :
                /\ Accepting(returned[k].smtp_port)
                /\ env[returned[k].smtp_port].greeting.ok
                /\ Accepting(returned[k].api_port)

\* A scan that returned an instance from a range holding a port whose probe
\* raised, with the default HTTP port silent.
C15_Witness ==
    /\ pc = "done"
    /\ returned # <<>>
    /\ \E port \in SweepPorts : env[port].tcp = "error"
    /\ env[DEFAULT_HTTP_PORT].tcp = "timeout"

\* C16: check_tcp_port returns true only when the TCP connect succeeds; a
\* refused, timed out or filtered connect and any other socket error give
\* false, and the probe never raises: every future holds true exactly for a
\* port that accepted, and so do the two results of the default check.
C16_ProbeTotality ==
    /\ pc # "raised"
    /\ \A port \in DOMAIN future_result : future_result[port] <=> Accepting(port)
    /\ pc \notin {"main", "check_default"} =>
          /\ smtp_port_open <=> Accepting(DEFAULT_SMTP_PORT)
          /\ http_port_open <=> Accepting(DEFAULT_HTTP_PORT)

\* The sweep holds the result false for a port whose probe raised and true
\* for a port that accepted, after a default check that found the HTTP port
\* silent and the SMTP port refusing or accepting.
C16_Witness ==
    /\ env[DEFAULT_HTTP_PORT].tcp = "timeout"
    /\ ~http_port_open
    /\ \E p \in DOMAIN future_result, q \in DOMAIN future_result :
          /\ env[p].tcp = "error"
          /\ ~future_result[p]
          /\ env[q].tcp = "open"
          /\ future_result[q]

\* The text a port greets with, the invalid bytes left out.
GreetingText(port) == SelectSeq(env[port].greeting.data, LAMBDA b : b # InvalidByte)

\* The marker stands in the text at position k.
MarkerAt(text, marker, k) ==
    /\ k + Len(marker) - 1 <= Len(text)
    /\ \A j \in 1 .. Len(marker) : text[k + j - 1] = marker[j]

\* The port greets, and its text holds "220", "SMTP" or "MailHog" somewhere.
GreetsAsSmtp(port) ==
    /\ env[port].greeting.ok
    /\ \E marker \in {<<"2", "2", "0">>, <<"S", "M", "T", "P">>,
                      <<"M", "a", "i", "l", "H", "o", "g">>} :
          \E k \in 1 .. Len(GreetingText(port)) : MarkerAt(GreetingText(port), marker, k)

\* The ports of open_ports the SMTP pass has been through.
SmtpVisited == {open_ports[k] : k \in 1 .. smtp_i}

\* C17: is_smtp_port is true exactly when the connection succeeds and the
\* first read, decoded leniently, contains "220", "SMTP" or "MailHog" as a
\* substring; a greeting of "hello" and every failure of connect or read
\* give false: a port the SMTP pass visited is in smtp_ports exactly in that
\* case, and so is the default SMTP port in the default instance.
C17_SmtpGreeting ==
    /\ \A port \in SmtpVisited :
          /\ port \in Range(smtp_ports) <=> GreetsAsSmtp(port)
          /\ env[port].greeting = Greeting(BannerHello) => port \notin Range(smtp_ports)
          /\ ~env[port].greeting.ok => port \notin Range(smtp_ports)
    /\ (pc = "default_return" /\ smtp_port_open) =>
          ("smtp_port" \in DOMAIN instance <=> GreetsAsSmtp(DEFAULT_SMTP_PORT))

\* The SMTP pass took a port greeting "ESMTP" for SMTP and passed over a
\* port greeting "hello".
C17_Witness ==
    \E p \in SmtpVisited, q \in SmtpVisited :
        /\ env[p].greeting = Greeting(BannerEsmtp)
        /\ p \in Range(smtp_ports)
        /\ env[q].greeting = Greeting(BannerHello)
        /\ q \notin Range(smtp_ports)

\* ------------------------------------------- properties: error isolation

\* The ways one api path can fail to match: a transport error, another
\* status than 200, a body of a listing that is no JSON, a v2 listing that
\* is JSON of another shape than an object with items.
PathFailed(path, response) ==
    \/ response.raised
    \/ ~response.raised /\ response.status # 200
    \/ /\ ~response.raised /\ response.status = 200
       /\ path \in {"/api/v1/messages", "/api/v2/messages"}
       /\ response.body \in {"text", "html_mailhog"}
    \/ /\ ~response.raised /\ response.status = 200
       /\ path = "/api/v2/messages"
       /\ response.body \in {"json_object", "json_list", "json_scalar"}

\* Every url of is_mailhog_api, in the order it requests them.
FullOrder == api_paths \o <<RootPath>>

\* C18: per-path error isolation: a transport error, a status other than
\* 200, an unparsable body or a shape mismatch on one api path only means
\* that path did not match: the next path (after the last, the bare url) is
\* still requested; the call always returns a triple, and (False, None,
\* None) with every url requested when nothing matched.
C18_PathIsolation ==
    \A c \in 1 .. Len(api_calls) :
        LET call == api_calls[c]
            req == call.requests
            http == env[call.port].http
        IN  /\ IsPrefix(req, FullOrder)
            /\ \A k \in 1 .. Len(req) :
                  (req[k] # RootPath /\ PathFailed(req[k], http[req[k]])) => k < Len(req)
            /\ Len(call.result) = 3
            /\ call.result[1] \in BOOLEAN
            /\ ~call.result[1] => call.result = <<FALSE, "None", "None">>
            /\ ((\A path \in Range(api_paths) : PathFailed(path, http[path]))
                    /\ ~RootHasMailHog(call.port))
                  => (call.result = <<FALSE, "None", "None">> /\ req = FullOrder)

\* A call whose v1 listing was no JSON, whose v2 listing was JSON of another
\* shape, whose /api and bare url raised: every url requested, no match.
C18_Witness ==
    \E c \in 1 .. Len(api_calls) :
        LET call == api_calls[c]
            http == env[call.port].http
        IN  /\ http["/api/v1/messages"] = Resp(200, "text")
            /\ http["/api/v2/messages"] = Resp(200, "json_object")
            /\ http["/api"] = ConnError
            /\ http[RootPath] = ConnError
            /\ call.requests = FullOrder
            /\ call.result = <<FALSE, "None", "None">>

\* ------------------------------------------- properties: a second scan

\* An invocation is at its entry with nothing collected.
EntryEmpty ==
    pc = "check_default" =>
        /\ open_ports = <<>>
        /\ smtp_ports = <<>>
        /\ api_ports = <<>>
        /\ mailhog_instances = <<>>

\* A later invocation returned what the one before it returned.
SameAsBefore == (runs >= 1 /\ pc = "done") => returned = previous

\* The range has ports and none of them accepts a connection.
RangeUnreachable == lo <= hi /\ \A port \in SweepPorts : env[port].tcp # "open"

\* C19 as stated: every invocation starts from empty collections, a second
\* scan of the unchanged host returns what the first returned, and a scan of
\* a range with no reachable port returns the empty list, both times.
C19_Original ==
    /\ EntryEmpty
    /\ SameAsBefore
    /\ (pc = "done" /\ RangeUnreachable) => returned = <<>>

\* C19 (amended): every invocation starts from empty collections, a second
\* scan of the unchanged host returns what the first returned, and a scan of
\* a range with no reachable port returns the empty list, both times, unless
\* the default ports (probed whatever the range) answer as a complete
\* instance: then it returns that instance, both times.
C19_IndependentRuns ==
    /\ EntryEmpty
    /\ SameAsBefore
    /\ (pc = "done" /\ RangeUnreachable) =>
          IF DefaultsAnswer
          THEN /\ Len(returned) = 1
               /\ returned[1].smtp_port = DEFAULT_SMTP_PORT
               /\ returned[1].api_port = DEFAULT_HTTP_PORT
          ELSE returned = <<>>

\* A second scan returned, like the first, the two instances of a sweep.
C19_Witness ==
    /\ runs = 1
    /\ pc = "done"
    /\ Len(returned) = 2
    /\ returned = previous
    /\ open_ports # <<>>

\* ------------------------------------- properties: order and baseline

\* The names of the operations performed so far, in order.
OpNames == [k \in 1 .. Len(net_ops) |-> net_ops[k].op]

StageOrder == <<"baseline_get", "smtp_session", "sleep", "refetch_get">>

\* The first GET was answered 200: there is a listing to count.
ListingObtained == venv.baseline.kind = "response" /\ venv.baseline.status = 200

\* The listing is a collection with a count: the items of a v2 listing, or
\* a JSON list.
Countable ==
    \/ vinstance.api_version = "v2" /\ venv.baseline.body = "json_items"
    \/ venv.baseline.body = "json_list"

\* The listing is JSON that was read and is no such collection.
OtherJson ==
    /\ ~Countable
    /\ \/ venv.baseline.body \in {"json_object", "json_items"}
       \/ venv.baseline.body = "json_scalar" /\ vinstance.api_version # "v2"

\* C20 as stated: the operations run in the order baseline GET, SMTP
\* session, delay, re-fetch; the baseline is recorded before the message is
\* submitted and not changed afterwards; for a listing that was obtained it
\* is the integer count when the listing is a collection with a count and
\* unknown otherwise.
C20_Original ==
    /\ IsPrefix(OpNames, StageOrder)
    /\ (PastApi /\ ListingObtained) =>
          verification["message_count"] =
              IF Countable THEN IntCount(venv.baseline.count) ELSE UnknownCount

\* C20 (amended): the operations run in the order baseline GET, SMTP
\* session, delay, re-fetch; the baseline is recorded before the message is
\* submitted and not changed afterwards; it is the integer count when the
\* listing is a collection with a count, unknown when the listing is JSON of
\* another shape, and the initial 0 when no listing was obtained or its body
\* could not be parsed or tested for items.
C20_OrderAndBaseline ==
    /\ IsPrefix(OpNames, StageOrder)
    /\ PastApi =>
          verification["message_count"] =
              IF ListingObtained /\ Countable THEN IntCount(venv.baseline.count)
              ELSE IF ListingObtained /\ OtherJson THEN UnknownCount
              ELSE IntCount(0)

\* A verification that ran all four operations after a first GET answered
\* 200 with a body that is no JSON: the baseline is the integer 0.
C20_Witness ==
    /\ vpc = "returned"
    /\ OpNames = StageOrder
    /\ venv.baseline = VResp(200, "text", 0)
    /\ verification["message_count"] = IntCount(0)

\* ------------------------------------------- properties: the command

\* C21: the scanner command run with a --port-range argument, the four
\* values of test_14_scan_mailhog among them, terminates with exit status 0
\* (the status the test asserts), whether or not an instance was found and
\* whatever the verification and the endpoint tests gave.
C21_ExitStatusZero == pc = "exited" => exit_status = 0

\* ----------------------------------------------- docker_port_manager.py

\* Every variable but dpm: the scanner's, and run_auth_flow_test's.
notDpm == <<env, port_range, pc, smtp_port_open, http_port_open, instance,
            port_futures, queue, running, future_result, consumed, open_ports,
            smtp_i, smtp_ports, api_i, api_ports, mailhog_instances, returned,
            tcp_calls, smtp_calls, api_calls, callerVars, verifyVars, argv,
            python, exit_status, api_tests, aft>>

\* CRITICAL_PORTS.items(), in the order of the dict.
CRITICAL_PORTS ==
    <<[service |-> "MongoDB", port |-> 27018],
      [service |-> "MailHog SMTP", port |-> 1025],
      [service |-> "MailHog Web UI", port |-> 8025],
      [service |-> "Auth Service", port |-> 3000]>>

CriticalPortNumbers == {CRITICAL_PORTS[k].port : k \in 1 .. Len(CRITICAL_PORTS)}

compose_file_default == "docker-compose.dev.yml"

\* The command lines main can be given: three flags, each set or not.
DpmArgs ==
    [rebuild : BOOLEAN, clear_cache : BOOLEAN, check_only : BOOLEAN,
     compose_file : {compose_file_default}]

\* is_port_in_use(port) of a host whose ports in `in_use` are listening.
is_port_in_use(in_use, port) == port \in in_use

\* check_port_conflicts(): the (service, port) pairs in use, in dict order.
RECURSIVE ConflictsFrom(_, _, _)
ConflictsFrom(pairs, in_use, k) ==
    IF k > Len(pairs) THEN <<>>
    ELSE (IF is_port_in_use(in_use, pairs[k].port) THEN <<pairs[k]>> ELSE <<>>)
         \o ConflictsFrom(pairs, in_use, k + 1)

check_port_conflicts(in_use) == ConflictsFrom(CRITICAL_PORTS, in_use, 1)

\* The shell commands of the Docker operations, as word lists.
StopCommand == <<"docker-compose", "down">>

PruneCommands ==
    << <<"docker", "system", "prune", "-f">>,
       <<"docker", "volume", "prune", "-f">> >>

BuildCommand(compose_file) ==
    <<"docker-compose", "-f", compose_file, "build", "--no-cache">>

UpCommand(compose_file) == <<"docker-compose", "-f", compose_file, "up", "-d">>

\* main returns `status`.
DpmReturn(d, status) == [d EXCEPT !.pc = "returned", !.returned = status]

\* `if args.check_only:` inside the conflicts branch of main.
CheckOnlyIgnored(a) == FALSE

CheckOnly(a) == a.check_only

\* main started with some flags on a host with some critical ports in use;
\* nothing checked, killed or run yet.
DpmStart ==
    dpm \in {[pc |-> "check_port_conflicts", args |-> a, in_use |-> u,
              conflicts |-> <<>>, i |-> 0, killed |-> <<>>, commands |-> <<>>,
              returned |-> -1] :
                 a \in DpmArgs, u \in SUBSET CriticalPortNumbers}

\* conflicts = check_port_conflicts() and the branch on it: no conflicts, on to
\* the Docker operations; conflicts in check-only mode, return 1; else resolve.
DpmCheckPortConflicts ==
    /\ dpm.pc = "check_port_conflicts"
    /\ LET conflicts == check_port_conflicts(dpm.in_use)
           d == [dpm EXCEPT !.conflicts = conflicts]
       IN dpm' = IF conflicts = <<>> THEN [d EXCEPT !.pc = "docker"]
                 ELSE IF CheckOnly(dpm.args) THEN DpmReturn(d, 1)
                 ELSE [d EXCEPT !.pc = "resolve", !.i = 1]
    /\ UNCHANGED notDpm

\* resolve_port_conflicts, first loop: find_and_kill_process_on_port of the
\* next conflict's port. Its result is dropped; the port is freed by it or not.
DpmKill ==
    /\ dpm.pc = "resolve"
    /\ dpm.i <= Len(dpm.conflicts)
    /\ LET port == dpm.conflicts[dpm.i].port
       IN \E freed \in BOOLEAN :
            dpm' = [dpm EXCEPT !.killed = Append(@, port),
                               !.in_use = IF freed THEN @ \ {port} ELSE @,
                               !.i = @ + 1]
    /\ UNCHANGED notDpm

\* resolve_port_conflicts, second loop, and main's branch on its result.
DpmRecheck ==
    /\ dpm.pc = "resolve"
    /\ dpm.i > Len(dpm.conflicts)
    /\ LET remaining_conflicts == ConflictsFrom(dpm.conflicts, dpm.in_use, 1)
       IN dpm' = IF remaining_conflicts = <<>> THEN [dpm EXCEPT !.pc = "docker"]
                 ELSE DpmReturn(dpm, 1)
    /\ UNCHANGED notDpm

\* `if args.rebuild or args.clear_cache:` and stop_docker_containers().
DpmStop ==
    /\ dpm.pc = "docker"
    /\ dpm' = IF dpm.args.rebuild \/ dpm.args.clear_cache
              THEN [dpm EXCEPT !.commands = Append(@, StopCommand),
                               !.pc = "clear_cache"]
              ELSE DpmReturn(dpm, 0)
    /\ UNCHANGED notDpm

\* `if args.clear_cache: clear_docker_cache()`: both commands, whatever the
\* first one gave.
DpmClearCache ==
    /\ dpm.pc = "clear_cache"
    /\ dpm' = [dpm EXCEPT !.commands = IF dpm.args.clear_cache
                                       THEN @ \o PruneCommands ELSE @,
                          !.pc = "rebuild"]
    /\ UNCHANGED notDpm

\* `if args.rebuild: rebuild_docker_containers(args.compose_file)`: the build,
\* and the up when the build succeeded; main returns 0 whatever they gave.
DpmRebuild ==
    /\ dpm.pc = "rebuild"
    /\ \E built \in BOOLEAN :
         LET f == dpm.args.compose_file
             run == IF ~dpm.args.rebuild THEN <<>>
                    ELSE IF built THEN <<BuildCommand(f), UpCommand(f)>>
                    ELSE <<BuildCommand(f)>>
         IN dpm' = DpmReturn([dpm EXCEPT !.commands = @ \o run], 0)
    /\ UNCHANGED notDpm

InitDpm ==
    /\ DpmStart
    /\ port_range = <<RangeLo, RangeLo>>
    /\ env = [p \in Universe |-> Closed]
    /\ Start
    /\ FirstCall
    /\ VerifyIdle
    /\ NotCli
    /\ AftIdle

NextDpm ==
    \/ DpmCheckPortConflicts
    \/ DpmKill
    \/ DpmRecheck
    \/ DpmStop
    \/ DpmClearCache
    \/ DpmRebuild

SpecDpm == InitDpm /\ [][NextDpm]_vars

\* ------------------------------------ properties: docker_port_manager.py

\* main has checked the critical ports and found at least one in use.
ConflictFound == dpm.pc # "check_port_conflicts" /\ dpm.conflicts # <<>>

\* C22: in check-only mode, once a critical port is found in conflict, main
\* has returned 1, find_and_kill_process_on_port was never called and no
\* Docker command (stop, prune, build, up) was run.
C22_CheckOnlyTouchesNothing ==
    (dpm.args.check_only /\ ConflictFound)
        => /\ dpm.pc = "returned"
           /\ dpm.returned = 1
           /\ dpm.killed = <<>>
           /\ dpm.commands = <<>>

\* Check-only mode with --rebuild and --clear-cache and every critical port in
\* use: main has returned.
C22_Witness ==
    /\ dpm.args.check_only
    /\ dpm.args.rebuild
    /\ dpm.args.clear_cache
    /\ Len(dpm.conflicts) = Len(CRITICAL_PORTS)
    /\ dpm.pc = "returned"

\* ------------------------------------------- properties: the three passes

\* The calls of is_smtp_port made by the second pass: those after the one the
\* default check makes when the default SMTP port is open.
SweepSmtpCalls ==
    SubSeq(smtp_calls, (IF smtp_port_open THEN 2 ELSE 1), Len(smtp_calls))

\* The ports the sweep's classifiers were called with.
SweepClassified == Range(SweepSmtpCalls) \cup {SweepCalls[k].port : k \in 1 .. Len(SweepCalls)}

\* Every probe task of the sweep was submitted, run, finished and waited for.
ProbesFinished ==
    /\ queue = <<>>
    /\ running = {}
    /\ DOMAIN future_result = SweepPorts
    /\ consumed = SweepPorts

\* The SMTP pass has been through every open port; its candidates are final.
SmtpPassFinished ==
    /\ smtp_i = Len(open_ports)
    /\ SweepSmtpCalls = open_ports
    /\ smtp_ports = SmtpAscending

PhaseOrder ==
    /\ SweepClassified # {} => ProbesFinished
    /\ SweepCalls # <<>> => SmtpPassFinished
    /\ \A port \in SweepClassified :
          /\ port \in SweepPorts
          /\ port \in DOMAIN future_result
          /\ future_result[port] = TRUE
          /\ port \in Range(open_ports)

\* C23: the sweep's classifiers are called only once every probe task has
\* finished, and only with ports the sweep found open; is_mailhog_api is
\* called by the sweep only once the SMTP pass has classified every open
\* port, and no step of the API pass changes smtp_ports.
C23_PhaseOrdering ==
    /\ []PhaseOrder
    /\ [][pc = "api_pass" => smtp_ports' = smtp_ports]_vars

\* The API pass at work on its second open port, with an SMTP candidate found
\* by the pass before it.
C23_Witness ==
    /\ pc = "api_pass"
    /\ api_i >= 1
    /\ api_i < Len(open_ports)
    /\ smtp_ports # <<>>
    /\ SweepCalls # <<>>

\* ------------------------------------------ properties: the returned list

\* The API ports the instances of the returned list reference.
ReturnedApiPorts == {returned[k]["api_port"] : k \in 1 .. Len(returned)}

\* C24: a non-empty list returned by the full sweep references one API port
\* only, and has as many instances as there are SMTP candidates, however many
\* open ports classify as API.
C24_OneApiPort ==
    (SweepReturned /\ returned # <<>>)
        => /\ Cardinality(ReturnedApiPorts) = 1
           /\ Len(api_ports) = 1
           /\ Len(returned) = Len(smtp_ports)
           /\ smtp_ports = SmtpAscending

\* The sweep returned two instances from a range where two open ports
\* classify as SMTP and two as API.
C24_Witness ==
    /\ SweepReturned
    /\ Len(returned) >= 2
    /\ Len(SmtpAscending) >= 2
    /\ Len(ApiAscending) >= 2

\* --------------------------------------- properties: ascending collection

\* The ports the sweep's API pass called is_mailhog_api with, in call order.
SweepApiCallPorts == [k \in 1 .. Len(SweepCalls) |-> SweepCalls[k].port]

\* The scan went past the default check into the sweep and finished it.
SweepCollected == AfterSweep /\ ~DefaultsAnswer

\* C25: open ports are collected in ascending port order, whatever the order
\* the probes finish in, and both passes classify them in that order; so with
\* an SMTP candidate the one API candidate kept is the lowest open port of
\* the range that classifies as API.
C25_LowestApiPortKept ==
    /\ IsPrefix(open_ports, OpenAscending)
    /\ SweepCollected => open_ports = OpenAscending
    /\ IsPrefix(SweepSmtpCalls, OpenAscending)
    /\ IsPrefix(SweepApiCallPorts, OpenAscending)
    /\ (SweepReturned /\ smtp_ports # <<>> /\ ApiAscending # <<>>)
          => /\ api_ports = <<ApiInfo(ApiAscending[1], is_mailhog_api(ApiAscending[1]))>>
             /\ \A port \in SweepPorts :
                   (check_tcp_port(port) /\ IsApiPort(port))
                       => api_ports[1].port <= port

\* With an SMTP candidate in the range, the probe of a higher API port has
\* finished while the probe of a lower API port is still running.
C25_Witness ==
    /\ SmtpAscending # <<>>
    /\ \E early \in running, late \in DOMAIN future_result :
          /\ early < late
          /\ check_tcp_port(early) /\ IsApiPort(early)
          /\ future_result[late] /\ IsApiPort(late)

\* ------------------------------------------- properties: re-check gating

\* The second GET was made.
RefetchMade == \E k \in 1 .. Len(net_ops) : net_ops[k].op = "refetch_get"

BothPassed == verification["api_test"] /\ verification["smtp_test"]

HasMessageReceived == "message_received" \in DOMAIN verification

\* The re-fetch was answered 200.
Refetch200 == venv.refetch.kind = "response" /\ venv.refetch.status = 200

\* message_received as the outcome rule gives it for the recorded baseline
\* and the count of the re-fetched body.
ByOutcomeRule ==
    LET baseline == verification["message_count"]
        counted == NewCount(vinstance.api_version, venv.refetch)
    IN  /\ HasMessageReceived
        /\ ~baseline.int => verification["message_received"]
        /\ (baseline.int /\ ~counted.raised) =>
              (verification["message_received"] <=> counted.value > baseline.n)

\* The gate, and the two outcomes that do not depend on the body.
GateAndStatus ==
    /\ RefetchMade <=> BothPassed
    /\ ~BothPassed => ~HasMessageReceived
    /\ (RefetchMade /\ venv.refetch.kind = "raise") =>
          (HasMessageReceived /\ ~verification["message_received"])
    /\ (RefetchMade /\ venv.refetch.kind = "response" /\ venv.refetch.status # 200) =>
          ~HasMessageReceived

\* C26 as stated: the re-fetch is made exactly when both tests passed, and
\* without it there is no message_received; a re-fetch answered 200 sets
\* message_received by the outcome rule, one that raises sets it false, one
\* answered with another status leaves it absent.
C26_Original ==
    vpc = "returned" =>
        /\ GateAndStatus
        /\ (RefetchMade /\ Refetch200) => ByOutcomeRule

\* C26, amended: as stated, but a re-fetch answered 200 sets message_received
\* by the outcome rule only when its body parses and can be counted; a 200
\* whose body cannot be parsed (or, for v2, is a JSON number) sets it false,
\* also when the baseline is unknown.
C26_RecheckGating ==
    vpc = "returned" =>
        /\ GateAndStatus
        /\ (RefetchMade /\ Refetch200) =>
              IF NewCount(vinstance.api_version, venv.refetch).raised
              THEN HasMessageReceived /\ ~verification["message_received"]
              ELSE ByOutcomeRule

\* Both tests passed with an unknown baseline, and the re-fetch was answered
\* 200 with a body that is no JSON.
C26_Witness ==
    /\ vpc = "returned"
    /\ RefetchMade
    /\ Refetch200
    /\ venv.refetch.body = "text"
    /\ ~verification["message_count"].int
    /\ HasMessageReceived
    /\ ~verification["message_received"]

\* ------------------------------------- properties: the failed shortcut

\* How many times `x` occurs in `seq`.
Count(seq, x) == Cardinality({k \in 1 .. Len(seq) : seq[k] = x})

\* The calls of is_mailhog_api with this port, of the default check and of
\* the sweep.
ApiCallsOf(port) == {k \in 1 .. Len(api_calls) : api_calls[k].port = port}

\* The sweep is entered and has not submitted anything yet.
SweepEntry == pc = "sweep" /\ port_futures = <<>>

\* The default check left a partial instance behind.
PartialFound == instance # <<>> /\ ~DefaultComplete

\* The API pass is over (or was left by its break).
ApiPassOver == pc \in {"correlate", "done"} /\ ~DefaultsAnswer

\* C27: a default check that finds nothing or a partial instance returns
\* nothing; the sweep starts with empty collections; a default port inside
\* the range is probed a second time by the sweep and, when open, classified
\* a second time; and the list the sweep returns is the one computed from the
\* ports of the range alone.
C27_ShortcutLeavesNoTrace ==
    /\ SweepEntry =>
          /\ open_ports = <<>>
          /\ smtp_ports = <<>>
          /\ api_ports = <<>>
          /\ mailhog_instances = <<>>
          /\ returned = <<>>
    /\ pc = "done" => (DefaultsAnswer \/ returned = ExpectedSweep)
    /\ \A k \in 1 .. Len(returned) :
          DefaultsAnswer \/ (returned[k]["smtp_port"] \in SweepPorts
                             /\ returned[k]["api_port"] \in SweepPorts)
    /\ SweepCollected =>
          \A port \in {DEFAULT_SMTP_PORT, DEFAULT_HTTP_PORT} \cap SweepPorts :
              Count(tcp_calls, port) = 2
    /\ (ApiPassOver /\ DEFAULT_SMTP_PORT \in SweepPorts /\ smtp_port_open) =>
          Count(smtp_calls, DEFAULT_SMTP_PORT) = 2
    /\ (ApiPassOver /\ DEFAULT_HTTP_PORT \in SweepPorts /\ http_port_open
            /\ (smtp_ports = <<>> \/ api_ports = <<>>
                   \/ api_ports[1].port >= DEFAULT_HTTP_PORT)) =>
          Cardinality(ApiCallsOf(DEFAULT_HTTP_PORT)) = 2

\* The default check found the SMTP half only; the sweep, whose range holds
\* the default SMTP port, classified that port again and returned instances.
C27_Witness ==
    /\ SweepReturned
    /\ PartialFound
    /\ "smtp_port" \in DOMAIN instance
    /\ DEFAULT_SMTP_PORT \in SweepPorts
    /\ Count(smtp_calls, DEFAULT_SMTP_PORT) = 2
    /\ returned # <<>>

\* ---------------------------------------- properties: the ports returned

\* Every port an instance references: its two ports and those of its urls.
PortsOf(inst) ==
    {inst["smtp_port"], inst["api_port"], inst["api_url"][1], inst["web_ui"][1]}

\* The instance is the one of the default ports.
IsDefaultInstance(inst) ==
    /\ inst["smtp_port"] = DEFAULT_SMTP_PORT
    /\ PortsOf(inst) \ {DEFAULT_SMTP_PORT} = {DEFAULT_HTTP_PORT}

\* The scan returned through the shortcut.
ShortcutReturned == pc = "done" /\ DefaultsAnswer

\* C28: every port a returned instance references lies in the range, when
\* the list comes from the sweep, or is a default port (1025 for SMTP, 8025
\* for the API), when it comes from the shortcut; and the shortcut's instance
\* is returned whether the range contains the default ports or not.
C28_PortsInRangeOrDefault ==
    /\ SweepReturned =>
          \A k \in 1 .. Len(returned) : PortsOf(returned[k]) \subseteq SweepPorts
    /\ ShortcutReturned =>
          /\ Len(returned) = 1
          /\ IsDefaultInstance(returned[1])
          /\ tcp_calls = <<DEFAULT_SMTP_PORT, DEFAULT_HTTP_PORT>>

\* The shortcut returned the default instance for a range that contains
\* neither default port.
C28_Witness ==
    /\ ShortcutReturned
    /\ returned # <<>>
    /\ lo <= hi
    /\ DEFAULT_SMTP_PORT \notin SweepPorts
    /\ DEFAULT_HTTP_PORT \notin SweepPorts

\* ------------------------------------- properties: one port, both roles

\* The open ports of the range that classify both as SMTP and as API.
BothRoles == {port \in Range(SmtpAscending) : IsApiPort(port)}

\* The returned instances whose two ports are the same port.
SamePortInstances == {k \in 1 .. Len(returned) : returned[k]["smtp_port"] = returned[k]["api_port"]}

\* C29: nothing keeps a port from being both an SMTP and an API candidate:
\* when the API candidate the sweep keeps also classified as SMTP, the port
\* is in both candidate lists and the returned list has an instance whose
\* smtp_port and api_port are that port.
C29_NoDistinctnessFilter ==
    (SweepReturned /\ ApiAscending # <<>> /\ ApiAscending[1] \in BothRoles)
        => /\ ApiAscending[1] \in Range(smtp_ports)
           /\ api_ports[1].port = ApiAscending[1]
           /\ \E k \in SamePortInstances : returned[k]["smtp_port"] = ApiAscending[1]

\* The sweep returned two instances, one of them with the same port in both
\* roles.
C29_Witness ==
    /\ SweepReturned
    /\ Len(returned) = 2
    /\ Cardinality(SamePortInstances) = 1

\* ------------------------------------- deploy_test.py: run_auth_flow_test

\* Every variable but aft: the scanner's, and docker_port_manager's.
notAft == <<env, port_range, pc, smtp_port_open, http_port_open, instance,
            port_futures, queue, running, future_result, consumed, open_ports,
            smtp_i, smtp_ports, api_i, api_ports, mailhog_instances, returned,
            tcp_calls, smtp_calls, api_calls, callerVars, verifyVars, argv,
            python, exit_status, api_tests, dpm>>

\* What a request of a step comes back with: the status the step wants, with
\* the body it wants; that status with a body that lacks what the step reads;
\* another status; or an exception of the session.
HttpOutcomes == {"ok", "incomplete", "other_status", "raise"}

\* What the login request comes back with: 200 with both tokens, with one of
\* them, with none; another status; an exception.
LoginOutcomes ==
    {"both", "access_only", "refresh_only", "neither", "other_status", "raise"}

\* What the prompt for the password reset flow is answered with.
PromptOutcomes == {"y", "n", "EOFError"}

\* The step `method` is called.
Call(a, method) == [a EXCEPT !.calls = Append(@, method)]

\* log_result(test_name, passed, details): one record appended.
log_result(a, test_name, passed) ==
    [a EXCEPT !.test_results = Append(@, [test |-> test_name, passed |-> passed])]

\* Mutant of AbortOnFailure: the result of a critical step is not looked at.
AbortOnFailureNever(passed) == FALSE

\* `if not self.<step>(): ... return False`
AbortOnFailure(passed) == ~passed

\* A critical step returned `passed`: abort, or on to `next`.
AfterCritical(a, passed, next) ==
    IF AbortOnFailure(passed)
    THEN [a EXCEPT !.pc = "returned", !.returned = "False"]
    ELSE [a EXCEPT !.pc = next]

\* An exception no handler catches leaves run_auth_flow_test.
AftRaise(a) == [a EXCEPT !.pc = "raised"]

\* The tester as __init__ leaves it, with or without a MailHog url, at the
\* first step of run_auth_flow_test.
AftStart ==
    aft \in {[pc |-> "health_check", calls |-> <<>>, test_results |-> <<>>,
              access_token |-> FALSE, refresh_token |-> FALSE,
              mailhog_url |-> m, returned |-> "None"] : m \in BOOLEAN}

\* health_check(): passed iff the GET is answered 200.
AftHealthCheck ==
    /\ aft.pc = "health_check"
    /\ \E r \in HttpOutcomes \ {"incomplete"} :
         LET passed == r = "ok"
             called == Call(aft, "health_check")
         IN aft' = AfterCritical(log_result(called, "Health Check", passed),
                                 passed, "signup_user")
    /\ UNCHANGED notAft

\* signup_user(): passed iff the POST is answered 201 with a userId.
AftSignupUser ==
    /\ aft.pc = "signup_user"
    /\ \E r \in HttpOutcomes :
         LET passed == r = "ok"
             called == Call(aft, "signup_user")
         IN aft' = AfterCritical(log_result(called, "User Sign Up", passed),
                                 passed, "verify_email")
    /\ UNCHANGED notAft

\* The code or token a step works with: fetched from MailHog when a url is
\* configured and the mail is found, else read with input(), which gives
\* some text ("typed"), an empty line ("none") or EOFError on a closed stdin.
CodeOutcomes(a) ==
    (IF a.mailhog_url THEN {"fetched"} ELSE {}) \cup {"typed", "none", "EOFError"}

\* verify_email(): input() is outside the try block; no code, one failed
\* record; else passed iff the POST is answered 200.
AftVerifyEmail ==
    /\ aft.pc = "verify_email"
    /\ \E code \in CodeOutcomes(aft), r \in HttpOutcomes \ {"incomplete"} :
         LET passed == code \in {"fetched", "typed"} /\ r = "ok"
             called == Call(aft, "verify_email")
         IN aft' = IF code = "EOFError" THEN AftRaise(called)
                   ELSE AfterCritical(log_result(called, "Email Verification", passed),
                                      passed, "login_user")
    /\ UNCHANGED notAft

\* login_user(): on 200 both token fields are overwritten with what the body
\* holds (None when missing); passed iff both are there.
LoginUser(a, r) ==
    LET answered == r \in {"both", "access_only", "refresh_only", "neither"}
        tokens == [a EXCEPT !.access_token =
                                IF answered THEN r \in {"both", "access_only"} ELSE @,
                            !.refresh_token =
                                IF answered THEN r \in {"both", "refresh_only"} ELSE @]
    IN log_result(tokens, "User Login", r = "both")

AftLoginUser ==
    /\ aft.pc = "login_user"
    /\ \E r \in LoginOutcomes :
         aft' = AfterCritical(LoginUser(Call(aft, "login_user"), r), r = "both",
                              "access_protected_route")
    /\ UNCHANGED notAft

\* access_protected_route(): its result is dropped.
AftAccessProtectedRoute ==
    /\ aft.pc = "access_protected_route"
    /\ \E r \in HttpOutcomes \ {"incomplete"} :
         LET passed == aft.access_token /\ r = "ok"
             called == Call(aft, "access_protected_route")
         IN aft' = [log_result(called, "Access Protected Route", passed)
                        EXCEPT !.pc = "refresh_token_test"]
    /\ UNCHANGED notAft

\* refresh_token_test(): a 200 overwrites access_token with the body's
\* accessToken (None when missing); its result is dropped.
AftRefreshTokenTest ==
    /\ aft.pc = "refresh_token_test"
    /\ \E r \in HttpOutcomes :
         LET sent == aft.refresh_token
             passed == sent /\ r = "ok"
             tokens == [Call(aft, "refresh_token_test") EXCEPT !.access_token =
                                      IF sent /\ r \in {"ok", "incomplete"}
                                      THEN r = "ok" ELSE @]
         IN aft' = [log_result(tokens, "Refresh Token", passed)
                        EXCEPT !.pc = "prompt"]
    /\ UNCHANGED notAft

\* input("Do you want to test password reset flow? (y/n): ")
AftPrompt ==
    /\ aft.pc = "prompt"
    /\ \E answer \in PromptOutcomes :
         aft' = CASE answer = "EOFError" -> AftRaise(aft)
                  [] answer = "y" -> [aft EXCEPT !.pc = "request_password_reset"]
                  [] OTHER -> [aft EXCEPT !.pc = "logout_user"]
    /\ UNCHANGED notAft

\* `if self.request_password_reset():`
AftRequestPasswordReset ==
    /\ aft.pc = "request_password_reset"
    /\ \E r \in HttpOutcomes \ {"incomplete"} :
         LET passed == r = "ok"
             called == Call(aft, "request_password_reset")
         IN aft' = [log_result(called, "Request Password Reset", passed)
                        EXCEPT !.pc = IF passed THEN "reset_password_with_manual_input"
                                      ELSE "logout_user"]
    /\ UNCHANGED notAft

\* reset_password_with_manual_input(): like verify_email; its result is
\* dropped.
AftResetPassword ==
    /\ aft.pc = "reset_password_with_manual_input"
    /\ \E code \in CodeOutcomes(aft), r \in HttpOutcomes \ {"incomplete"} :
         LET passed == code \in {"fetched", "typed"} /\ r = "ok"
             called == Call(aft, "reset_password_with_manual_input")
         IN aft' = IF code = "EOFError" THEN AftRaise(called)
                   ELSE [log_result(called, "Password Reset", passed)
                             EXCEPT !.pc = "login_after_reset"]
    /\ UNCHANGED notAft

\* login_after_reset(): login_user() again; its result is dropped.
AftLoginAfterReset ==
    /\ aft.pc = "login_after_reset"
    /\ \E r \in LoginOutcomes :
         aft' = [LoginUser(Call(aft, "login_after_reset"), r) EXCEPT !.pc = "logout_user"]
    /\ UNCHANGED notAft

\* logout_user() and `return True`: a 200 clears both tokens.
AftLogoutUser ==
    /\ aft.pc = "logout_user"
    /\ \E r \in HttpOutcomes \ {"incomplete"} :
         LET passed == aft.refresh_token /\ r = "ok"
             called == Call(aft, "logout_user")
             tokens == IF passed
                       THEN [called EXCEPT !.access_token = FALSE, !.refresh_token = FALSE]
                       ELSE called
         IN aft' = [log_result(tokens, "User Logout", passed)
                        EXCEPT !.pc = "returned", !.returned = "True"]
    /\ UNCHANGED notAft

InitAft ==
    /\ AftStart
    /\ port_range = <<RangeLo, RangeLo>>
    /\ env = [p \in Universe |-> Closed]
    /\ Start
    /\ FirstCall
    /\ VerifyIdle
    /\ NotCli
    /\ DpmIdle

NextAft ==
    \/ AftHealthCheck
    \/ AftSignupUser
    \/ AftVerifyEmail
    \/ AftLoginUser
    \/ AftAccessProtectedRoute
    \/ AftRefreshTokenTest
    \/ AftPrompt
    \/ AftRequestPasswordReset
    \/ AftResetPassword
    \/ AftLoginAfterReset
    \/ AftLogoutUser

SpecAft == InitAft /\ [][NextAft]_vars

\* ------------------------------------ properties: run_auth_flow_test

\* The steps whose failure ends the function, in order.
CriticalSteps == <<"health_check", "signup_user", "verify_email", "login_user">>

\* The six steps every run that gets past the login goes through, in order.
FirstSteps == CriticalSteps \o <<"access_protected_route", "refresh_token_test">>

\* The steps after the prompt: the flow declined; the request failed; the
\* request passed.
LastSteps ==
    {<<"logout_user">>,
     <<"request_password_reset", "logout_user">>,
     <<"request_password_reset", "reset_password_with_manual_input",
       "login_after_reset", "logout_user">>}

FullFlows == {FirstSteps \o last : last \in LastSteps}

\* The name a step logs its record under.
RecordName(method) ==
    CASE method = "health_check" -> "Health Check"
      [] method = "signup_user" -> "User Sign Up"
      [] method = "verify_email" -> "Email Verification"
      [] method = "login_user" -> "User Login"
      [] method = "access_protected_route" -> "Access Protected Route"
      [] method = "refresh_token_test" -> "Refresh Token"
      [] method = "request_password_reset" -> "Request Password Reset"
      [] method = "reset_password_with_manual_input" -> "Password Reset"
      [] method = "login_after_reset" -> "User Login"
      [] method = "logout_user" -> "User Logout"

NumCritical == Len(CriticalSteps)

Aborted == aft.pc = "returned" /\ aft.returned = "False"

AftEnded == aft.pc \in {"returned", "raised"}

LoginSucceeded ==
    /\ Len(aft.test_results) >= NumCritical
    /\ aft.test_results[NumCritical].passed

\* Steps are called in the order of the function, and the first failure among
\* the critical four ends it with False, nothing called after it; a run past
\* the login that returns has gone through a full flow, whatever the later
\* steps' results, and returns True; the reset and the second login are
\* called only after a request that passed.
Gating ==
    /\ \E flow \in FullFlows : IsPrefix(aft.calls, flow)
    /\ \A k \in 1 .. Len(aft.test_results) :
          (k <= NumCritical /\ ~aft.test_results[k].passed)
              => (Aborted /\ Len(aft.calls) = k)
    /\ Aborted =>
          /\ Len(aft.test_results) \in 1 .. NumCritical
          /\ ~aft.test_results[Len(aft.test_results)].passed
    /\ (aft.pc = "returned" /\ LoginSucceeded) =>
          (aft.returned = "True" /\ aft.calls \in FullFlows)
    /\ \A k \in 1 .. Len(aft.test_results) :
          (aft.calls[k] = "request_password_reset" /\ Len(aft.calls) > k)
              => (aft.test_results[k].passed <=>
                      aft.calls[k + 1] = "reset_password_with_manual_input")

\* The k-th record is the one of the k-th step called.
RecordsFollowCalls ==
    \A k \in 1 .. Len(aft.test_results) :
        /\ k <= Len(aft.calls)
        /\ aft.test_results[k].test = RecordName(aft.calls[k])

\* C30 as stated: the gating; every step called has appended one record;
\* and a run that ended did so by returning, True when the login succeeded
\* and False when not.
C30_Original ==
    /\ Gating
    /\ RecordsFollowCalls
    /\ Len(aft.test_results) = Len(aft.calls)
    /\ AftEnded => aft.returned = (IF LoginSucceeded THEN "True" ELSE "False")

\* A step that read its code with input() and got EOFError: it raised
\* before appending a record.
RaisedInStep ==
    /\ aft.pc = "raised"
    /\ Len(aft.calls) = Len(aft.test_results) + 1
    /\ aft.calls[Len(aft.calls)] \in {"verify_email", "reset_password_with_manual_input"}

\* The prompt for the password reset flow got EOFError.
RaisedAtPrompt ==
    /\ aft.pc = "raised"
    /\ aft.calls = FirstSteps
    /\ Len(aft.test_results) = Len(aft.calls)

\* C30, amended: the gating as stated; every step that returned has appended
\* exactly one record; a run that returns gives True when the login succeeded
\* and False when not; and the only other way the function ends is an
\* EOFError of one of its three input() calls, which escapes with no record
\* for the step it interrupted, no later step and no return value.
C30_AuthFlowGating ==
    /\ Gating
    /\ RecordsFollowCalls
    /\ aft.pc # "raised" => Len(aft.test_results) = Len(aft.calls)
    /\ aft.pc = "returned" => aft.returned = (IF LoginSucceeded THEN "True" ELSE "False")
    /\ aft.pc = "raised" =>
          /\ RaisedInStep \/ RaisedAtPrompt
          /\ aft.returned = "None"
          /\ "logout_user" \notin Range(aft.calls)

\* A run through the whole flow with the reset, in which the protected route
\* and the refresh failed, returned True with ten records.
C30_Witness ==
    /\ aft.pc = "returned"
    /\ aft.returned = "True"
    /\ Len(aft.test_results) = 10
    /\ ~aft.test_results[5].passed
    /\ ~aft.test_results[6].passed

====
